---------------------------- MODULE Spec2Model ----------------------------
(***************************************************************************)
(* A state-machine model of the incremental symbol index of RubyNavigate   *)
(* (src/src/symbolCache.ts, class SymbolCache) together with its callers   *)
(* (extension.ts activate, rubyLocator.ts listRubySymbols) and the file    *)
(* system / timer environment it runs in.                                  *)
(*                                                                         *)
(* JavaScript runs one handler at a time: every action below is one        *)
(* synchronous segment of a handler, from its entry or from the            *)
(* resumption after an `await` up to the next `await`.                     *)
(***************************************************************************)
EXTENDS Integers, Sequences, FiniteSets, TLC

(***************************************************************************)
(* Bounds of the model.                                                    *)
(***************************************************************************)
NumFiles == 2          \* Ruby files of the workspace
MaxPasses == 2         \* rebuildIndex/clearAndRebuildIndex calls in flight
MaxBatches == 2        \* processPendingFileChanges runs in flight
MaxOps == 3            \* stimuli from outside: calls of the public API and
                       \*   file-system changes (each delivers a watcher event)
DebounceTicks == 2     \* the debounce window, in clock ticks
NumPaths == 6          \* paths that the calls of prioritizeFiles draw from
MaxListLen == 3        \* longest file list passed to prioritizeFiles
NumEntries == 3        \* paths in the cache data passed to pruneIfNeeded
MaxSymbols == 2        \* symbols of one entry of that cache data
MaxMtime == 3          \* mtimes of the entries of that cache data
MaxLines == 4          \* lines of the texts passed to parseRubySymbolsFromText
MaxNameLen == 3        \* characters of the names passed to matchesRubySymbol
MaxTermLen == 5        \* characters of the terms passed to matchesRubySymbol

Files == 1..NumFiles
PassIds == 1..MaxPasses
BatchIds == 1..MaxBatches

VARIABLES
    fsExists,            \* file system: does the file exist
    fsMtime,             \* file system: mtime (= content version) of a file
    cacheFile,           \* the disk cache file symbol-cache.json
    cache,               \* SymbolCache.cache          (Map path -> symbols)
    fileModTimes,        \* SymbolCache.fileModTimes   (Map path -> mtime)
    isIndexing,          \* SymbolCache.isIndexing
    indexingPromise,     \* SymbolCache.indexingPromise (0 = null, else pass)
    pendingDiskWrites,   \* SymbolCache.pendingDiskWrites
    pendingFileChanges,  \* SymbolCache.pendingFileChanges (insertion order)
    debounceTimer,       \* SymbolCache.debounceTimer (-1 = null, else ticks left)
    diskSaveTimer,       \* SymbolCache.diskSaveTimer (0 = null, else the
                         \*   change batch whose promise the timer resolves)
    disposed,            \* dispose() has run
    passes,              \* the rebuildIndex/clearAndRebuildIndex calls in flight
    batches,             \* the processPendingFileChanges runs in flight
    orphanedSaves,       \* promises of performDebouncedSave whose timer was
                         \*   cleared before it fired (never resolved)
    ops,                 \* number of API calls and file-system changes so far
    warning,             \* the file named in the message that the last step
                         \*   passed to window.showWarningMessage (0: none)
    fsFaulty,            \* reading a file that exists can fail (I/O error,
                         \*   permission denied); fixed from the start
    outside,             \* the .rb files on disk that are not of the live file
                         \*   set: of another workspace or under a directory of
                         \*   rubynavigate.excludeDirectories; fixed from the start
    \* history variables, written by no handler and read by none
    burst,               \* create/change events per file since the last snapshot
    sinceEvent,          \* clock ticks since the last create/change event
    owed,                \* per file: snapshots taken minus invalidateFile calls
    lastBurst,           \* the bursts that the last snapshot closed
    lastEnsure,          \* the last ensureIndexed() call and what it did
    fullIndexDone,       \* a full index pass has been performed to its end
    solo,                \* a clearAndRebuildIndex() call running on its own
    overran,             \* the file whose extraction ended in the last step
                         \*   after more than the per-file timeout (0: none)
    \* calls of the pure functions, each with its arguments and its result
    prioCall,            \* a call of prioritizeFiles
    pruneCall,           \* a call of pruneIfNeeded
    parseCall,           \* calls of parseRubySymbolsFromText
    nameCall             \* a call of matchesRubySymbol, compareMatches, isClassOrModule

fsVars == <<fsExists, fsMtime, cacheFile>>
tableVars == <<cache, fileModTimes>>
flagVars == <<isIndexing, indexingPromise>>
timerVars == <<pendingDiskWrites, pendingFileChanges, debounceTimer, diskSaveTimer>>
taskVars == <<passes, batches, orphanedSaves>>
envVars == <<ops, warning>>
debounceHist == <<burst, sinceEvent, owed, lastBurst>>
callHist == <<lastEnsure, fullIndexDone>>
callVars == <<prioCall, pruneCall, parseCall, nameCall>>

(***************************************************************************)
(* JavaScript Map helpers: a Map is a function on the set of its keys.     *)
(***************************************************************************)
EmptyMap == [x \in {} |-> 0]
MapSet(m, k, v) == [x \in (DOMAIN m) \cup {k} |-> IF x = k THEN v ELSE m[x]]
MapDelete(m, k) == [x \in (DOMAIN m) \ {k} |-> m[x]]
Max(a, b) == IF a >= b THEN a ELSE b
Min(a, b) == IF a <= b THEN a ELSE b

(***************************************************************************)
(* Symbols.  The content of a file is identified by its version (the mtime *)
(* at which it was written); the extractor maps a content to the list of   *)
(* its symbol records.                                                     *)
(***************************************************************************)
extractSymbolsFromDocument(f, text) ==
    << [name |-> text, uri |-> f, range |-> <<text, text + 1>>,
        isPrivate |-> (text % 2 = 0)] >>

\* one symbol as saveToDisk serialises it
SerializeSymbol(sym) ==
    IF "isPrivate" \in DOMAIN sym
    THEN [name |-> sym.name, isPrivate |-> sym.isPrivate, range |-> sym.range]
    ELSE [name |-> sym.name, range |-> sym.range]

\* one symbol as loadFromDisk rebuilds it (name, uri and range only)
DeserializeSymbol(f, sym) == [name |-> sym.name, uri |-> f, range |-> sym.range]

CachedFileEntry(symbols, mtime) ==
    [symbols |-> [k \in DOMAIN symbols |-> SerializeSymbol(symbols[k])],
     mtime |-> mtime]

(***************************************************************************)
(* The disk cache file: absent, or a JSON object path -> CachedFileEntry.  *)
(* A file that the program did not write may be corrupt: `malformed` when  *)
(* JSON.parse throws on it, and `misshapen` holds the paths whose value    *)
(* has a `symbols` member that is not an array.                            *)
(***************************************************************************)
NoCacheFile == [exists |-> FALSE, data |-> EmptyMap, malformed |-> FALSE, misshapen |-> {}]

\* Buffer.byteLength(JSON.stringify(cacheData)), for paths of PathLen
\* characters and one-character names
PathLen(f) == Len("/ws/app/models/f.rb")
DigitsLen(n) == IF n < 10 THEN 1 ELSE 2
SymbolJsonLen(sym) ==
    Len("{'name':'x',") + (IF "isPrivate" \in DOMAIN sym
                           THEN Len("'isPrivate':false,") ELSE 0)
    + Len("'range':{'start':{'line':0,'character':0},'end':{'line':0,'character':0}}}")
RECURSIVE SymbolsJsonLen(_, _)
SymbolsJsonLen(symbols, k) ==
    IF k > Len(symbols) THEN 0
    ELSE SymbolJsonLen(symbols[k]) + (IF k > 1 THEN 1 ELSE 0)
         + SymbolsJsonLen(symbols, k + 1)
EntryJsonLen(f, entry) ==
    PathLen(f) + Len("'':{'symbols':[") + SymbolsJsonLen(entry.symbols, 1)
    + Len("],'mtime':") + DigitsLen(entry.mtime) + Len("}")
RECURSIVE EntriesJsonLen(_, _)
EntriesJsonLen(data, keys) ==
    IF keys = {} THEN 0
    ELSE LET f == CHOOSE x \in keys : TRUE
         IN  EntryJsonLen(f, data[f]) + (IF keys = {f} THEN 0 ELSE 1)
             + EntriesJsonLen(data, keys \ {f})
JsonByteLength(data) == 2 + EntriesJsonLen(data, DOMAIN data)

\* Object.entries(cacheData).sort((a, b) => a[1].mtime - b[1].mtime):
\* the keys, oldest mtime first
RECURSIVE sortedEntries(_, _)
sortedEntries(data, keys) ==
    IF keys = {} THEN << >>
    ELSE LET f == CHOOSE x \in keys : \A y \in keys :
                    \/ data[x].mtime < data[y].mtime
                    \/ data[x].mtime = data[y].mtime /\ x <= y
         IN  <<f>> \o sortedEntries(data, keys \ {f})

\* a loop that passes over an entry that does not fit and goes on with the
\* older ones
RECURSIVE PruneLoop_Continue(_, _, _, _, _)
PruneLoop_Continue(data, order, i, prunedKeys, maxSizeBytes) ==
    IF i < 1 THEN prunedKeys
    ELSE LET testKeys == prunedKeys \cup {order[i]}
             testData == [f \in testKeys |-> data[f]]
         IN  IF JsonByteLength(testData) * 10 <= maxSizeBytes * 9
             THEN PruneLoop_Continue(data, order, i - 1, testKeys, maxSizeBytes)
             ELSE PruneLoop_Continue(data, order, i - 1, prunedKeys, maxSizeBytes)

\* the loop of pruneIfNeeded: from the newest entry down, keep an entry
\* while the kept data stays within the target size, stop at the first
\* entry that does not fit
RECURSIVE PruneLoop(_, _, _, _, _)
PruneLoop(data, order, i, prunedKeys, maxSizeBytes) ==
    IF i < 1 THEN prunedKeys
    ELSE LET testKeys == prunedKeys \cup {order[i]}
             testData == [f \in testKeys |-> data[f]]
         IN  IF JsonByteLength(testData) * 10 <= maxSizeBytes * 9
             THEN PruneLoop(data, order, i - 1, testKeys, maxSizeBytes)
             ELSE prunedKeys

maxCacheSizeMB == 100

\* pruneIfNeeded(cacheData) when the setting maxCacheSizeMB makes
\* maxSizeBytes bytes
pruneIfNeededWith(maxSizeBytes, cacheData) ==
    IF JsonByteLength(cacheData) <= maxSizeBytes THEN cacheData
    ELSE LET order == sortedEntries(cacheData, DOMAIN cacheData)
             kept == PruneLoop(cacheData, order, Len(order), {}, maxSizeBytes)
         IN  [f \in kept |-> cacheData[f]]

\* pruneIfNeeded(cacheData) with the default setting
pruneIfNeeded(cacheData) == pruneIfNeededWith(maxCacheSizeMB * 1024 * 1024, cacheData)

\* saveToDisk(): the file written from the table `c` and mtime table `m`
saveToDisk(c, m) ==
    LET cacheData == [f \in (DOMAIN c) \cap (DOMAIN m) |-> CachedFileEntry(c[f], m[f])]
    IN  [exists |-> TRUE, data |-> pruneIfNeeded(cacheData), malformed |-> FALSE,
         misshapen |-> {}]

\* loadFromDisk(): the entries of the file that are trusted, i.e. whose
\* path can be stat-ed and whose stored mtime equals the current mtime.
\* JSON.parse throwing ends the load in the outer catch; entry.symbols.map
\* throwing on a misshapen entry ends in the catch inside the loop, which
\* goes on with the next entry
Trusted(file, exists, mtime) ==
    IF file.exists /\ ~file.malformed
    THEN {f \in DOMAIN file.data : /\ exists[f] /\ file.data[f].mtime = mtime[f]
                                   /\ f \notin file.misshapen}
    ELSE {}
loadFromDiskCache(file, exists, mtime, c) ==
    LET loaded == Trusted(file, exists, mtime)
    IN  [f \in (DOMAIN c) \cup loaded |->
            IF f \in loaded
            THEN [k \in DOMAIN file.data[f].symbols |->
                     DeserializeSymbol(f, file.data[f].symbols[k])]
            ELSE c[f]]
loadFromDiskModTimes(file, exists, mtime, m) ==
    LET loaded == Trusted(file, exists, mtime)
    IN  [f \in (DOMAIN m) \cup loaded |-> IF f \in loaded THEN mtime[f] ELSE m[f]]

(***************************************************************************)
(* File discovery and priority ordering.  A path is the sequence of its    *)
(* segments; `path.includes(sep + dir + sep)` holds when the segments of   *)
(* dir occur contiguously among the directory segments of the path.        *)
(***************************************************************************)
FilePath(f) ==
    CASE f = 1 -> <<"ws", "lib", "a.rb">>
      [] f = 2 -> <<"ws", "app", "models", "b.rb">>
      [] f = 3 -> <<"ws", "spec", "c.rb">>
      [] f = 4 -> <<"ws", "app", "d.rb">>
      [] f = 5 -> <<"ws", "app", "models", "e.rb">>
      [] OTHER -> <<"ws", "lib", "app", "f.rb">>

priorityDirs ==
    << <<"app", "models">>, <<"app", "controllers">>, <<"app", "services">>,
       <<"app", "jobs">>, <<"app", "helpers">>, <<"app">>, <<"lib">> >>

includesDir(p, dir) ==
    \E j \in 1..Len(p) :
        /\ j + Len(dir) - 1 < Len(p)
        /\ \A k \in 1..Len(dir) : p[j + k - 1] = dir[k]

\* a comparator that looks only at the first configured directory
comparePriority_FirstDirOnly(dirs, a, b, d) ==
    IF d > Len(dirs) THEN 0
    ELSE LET aMatches == includesDir(FilePath(a), dirs[d])
             bMatches == includesDir(FilePath(b), dirs[d])
         IN  IF aMatches /\ ~bMatches THEN -1
             ELSE IF ~aMatches /\ bMatches THEN 1
             ELSE 0

\* the comparator of priorityFiles.sort
RECURSIVE comparePriority(_, _, _, _)
comparePriority(dirs, a, b, d) ==
    IF d > Len(dirs) THEN 0
    ELSE LET aMatches == includesDir(FilePath(a), dirs[d])
             bMatches == includesDir(FilePath(b), dirs[d])
         IN  IF aMatches /\ ~bMatches THEN -1
             ELSE IF ~aMatches /\ bMatches THEN 1
             ELSE IF aMatches /\ bMatches THEN 0
             ELSE comparePriority(dirs, a, b, d + 1)

\* Array.prototype.sort on a short array: stable insertion sort
RECURSIVE InsertSorted(_, _, _)
InsertSorted(dirs, sorted, x) ==
    IF sorted = << >> THEN <<x>>
    ELSE LET last == sorted[Len(sorted)]
         IN  IF comparePriority(dirs, x, last, 1) < 0
             THEN InsertSorted(dirs, SubSeq(sorted, 1, Len(sorted) - 1), x) \o <<last>>
             ELSE Append(sorted, x)
RECURSIVE SortPriority(_, _, _)
SortPriority(dirs, files, k) ==
    IF k = 0 THEN << >>
    ELSE InsertSorted(dirs, SortPriority(dirs, files, k - 1), files[k])

\* prioritizeFiles(files) when the setting priorityDirectories is `dirs`
prioritizeFilesWith(dirs, files) ==
    IF Len(dirs) = 0 THEN files
    ELSE LET isPriority(f) == \E d \in 1..Len(dirs) : includesDir(FilePath(f), dirs[d])
             priorityFiles == SelectSeq(files, isPriority)
             regularFiles == SelectSeq(files, LAMBDA f : ~isPriority(f))
         IN  SortPriority(dirs, priorityFiles, Len(priorityFiles)) \o regularFiles

\* prioritizeFiles(files) with the default setting
prioritizeFiles(files) == prioritizeFilesWith(priorityDirs, files)

\* workspace.findFiles('**/*.rb', excludePattern): the existing files of
\* the workspace that are under no excluded directory
RECURSIVE findFiles(_, _)
findFiles(exists, f) ==
    IF f > NumFiles THEN << >>
    ELSE (IF exists[f] /\ f \notin outside THEN <<f>> ELSE << >>)
         \o findFiles(exists, f + 1)


(***************************************************************************)
(* Tasks.  A per-file parse is "reading" from its statSync until           *)
(* workspace.openTextDocument has read the file ("read", or "failed" when  *)
(* the file could not be read), and ends when its continuation runs.       *)
(***************************************************************************)
NoTask == [st |-> "none", mtime |-> 0, text |-> 0]
Reading(m) == [st |-> "reading", mtime |-> m, text |-> 0]
NoTasks == [f \in Files |-> NoTask]
Idle == [pc |-> "idle", files |-> << >>, i |-> 0, tasks |-> NoTasks]
Pending(tasks) == {f \in Files : tasks[f].st # "none"}
Slice(files, i, n) == {files[k] : k \in (i + 1)..Min(i + n, Len(files))}

\* the lowest free slot for a new call / a new run
FreePass == CHOOSE p \in PassIds : passes[p].pc = "idle" /\ \A q \in PassIds : q < p => passes[q].pc # "idle"
FreeBatch == CHOOSE b \in BatchIds : batches[b].pc = "idle" /\ \A q \in BatchIds : q < b => batches[q].pc # "idle"
HasFreePass == \E p \in PassIds : passes[p].pc = "idle"
HasFreeBatch == \E b \in BatchIds : batches[b].pc = "idle"

\* A caller is still running in the tick in which it called rebuildIndex():
\* the call waits for the promise of loadFromDisk(), and until the caller
\* returns to the event loop no timer, watcher event or I/O completion runs
InTick == \E p \in PassIds : passes[p].pc = "loading"

\* workspace.openTextDocument of a task's file completes
openTextDocument(task, f) ==
    IF fsExists[f]
    THEN [task EXCEPT !.st = "read", !.text = fsMtime[f]]
    ELSE [task EXCEPT !.st = "failed"]
\* the ways in which it can complete: on a faulty file system a file that
\* exists may still fail to be read
ReadOutcomes(task, f) ==
    {openTextDocument(task, f)} \cup
    (IF fsFaulty THEN {[task EXCEPT !.st = "failed"]} ELSE {})

(***************************************************************************)
(* Initial state: the SymbolCache has just been constructed.  The          *)
(* workspace holds the files at mtime 1, and the cache file of an earlier  *)
(* session is absent, or has a fresh entry (mtime 1) for file 1 and a      *)
(* stale entry (mtime 0) for every other file; or the workspace holds no   *)
(* Ruby file at all.                                                       *)
(***************************************************************************)
EarlierSession(staleFiles) ==
    saveToDisk([f \in Files |-> extractSymbolsFromDocument(f, IF f \in staleFiles THEN 0 ELSE 1)],
               [f \in Files |-> IF f \in staleFiles THEN 0 ELSE 1])
InitCacheFiles == {NoCacheFile, EarlierSession(Files \ {1})}

NoEnsure == [outcome |-> "none", busy |-> FALSE, indexed |-> FALSE]
NoSolo == [st |-> "none", pass |-> 0, before |-> {}, invoked |-> {}, parsed |-> {}]

\* the fields of a SymbolCache that has just been constructed
SymbolCacheConstructed ==
    /\ burst = [f \in Files |-> 0]
    /\ sinceEvent = DebounceTicks
    /\ owed = [f \in Files |-> 0]
    /\ lastBurst = [f \in Files |-> 0]
    /\ lastEnsure = NoEnsure
    /\ fullIndexDone = FALSE
    /\ solo = NoSolo
    /\ overran = 0
    /\ cache = EmptyMap
    /\ fileModTimes = EmptyMap
    /\ isIndexing = FALSE
    /\ indexingPromise = 0
    /\ pendingDiskWrites = {}
    /\ pendingFileChanges = << >>
    /\ debounceTimer = -1
    /\ diskSaveTimer = 0
    /\ disposed = FALSE
    /\ passes = [p \in PassIds |-> Idle]
    /\ batches = [b \in BatchIds |-> Idle]
    /\ orphanedSaves = 0
    /\ ops = 0
    /\ warning = 0

SymbolCacheInit ==
    /\ \/ /\ fsExists = [f \in Files |-> TRUE]
          /\ fsMtime = [f \in Files |-> 1]
          /\ cacheFile \in InitCacheFiles
       \/ /\ fsExists = [f \in Files |-> FALSE]
          /\ fsMtime = [f \in Files |-> 0]
          /\ cacheFile = NoCacheFile
    /\ fsFaulty = FALSE
    /\ outside = {}
    /\ SymbolCacheConstructed

\* no pure function is under test
NoCall == [st |-> "none"]
Init ==
    /\ SymbolCacheInit
    /\ prioCall = NoCall
    /\ pruneCall = NoCall
    /\ parseCall = NoCall
    /\ nameCall = NoCall

(***************************************************************************)
(* File watcher events (setupFileWatchers).                                *)
(***************************************************************************)
\* debouncedInvalidateFile(uri) that leaves a timer that is already armed
\* running instead of restarting it
debouncedInvalidateFile_NoRestart(f) ==
    /\ pendingFileChanges' =
          IF \E k \in 1..Len(pendingFileChanges) : pendingFileChanges[k] = f
          THEN pendingFileChanges ELSE Append(pendingFileChanges, f)
    /\ debounceTimer' = IF debounceTimer >= 0 THEN debounceTimer ELSE DebounceTicks

\* debouncedInvalidateFile(uri)
debouncedInvalidateFile(f) ==
    /\ pendingFileChanges' =
          IF \E k \in 1..Len(pendingFileChanges) : pendingFileChanges[k] = f
          THEN pendingFileChanges ELSE Append(pendingFileChanges, f)
    /\ debounceTimer' = DebounceTicks

\* removeFile(uri) that forgets the mtime table
removeFile_CacheOnly(f) ==
    /\ cache' = MapDelete(cache, f)
    /\ fileModTimes' = fileModTimes

\* removeFile(uri)
removeFile(f) ==
    /\ cache' = MapDelete(cache, f)
    /\ fileModTimes' = MapDelete(fileModTimes, f)

\* a file is written: watcher.onDidChange
OnDidChange(f) ==
    /\ ~InTick /\ ~disposed /\ ops < MaxOps
    /\ fsExists[f]
    /\ fsMtime' = [fsMtime EXCEPT ![f] = @ + 1]
    /\ ops' = ops + 1 /\ warning' = 0
    /\ debouncedInvalidateFile(f)
    /\ UNCHANGED <<fsExists, cacheFile, tableVars, flagVars, pendingDiskWrites,
                   diskSaveTimer, disposed, taskVars>>

\* a file is created: watcher.onDidCreate
OnDidCreate(f) ==
    /\ ~InTick /\ ~disposed /\ ops < MaxOps
    /\ ~fsExists[f]
    /\ fsExists' = [fsExists EXCEPT ![f] = TRUE]
    /\ fsMtime' = [fsMtime EXCEPT ![f] = @ + 1]
    /\ ops' = ops + 1 /\ warning' = 0
    /\ debouncedInvalidateFile(f)
    /\ UNCHANGED <<cacheFile, tableVars, flagVars, pendingDiskWrites,
                   diskSaveTimer, disposed, taskVars>>

\* a file is deleted: watcher.onDidDelete
OnDidDelete(f) ==
    /\ ~InTick /\ ~disposed /\ ops < MaxOps
    /\ fsExists[f]
    /\ fsExists' = [fsExists EXCEPT ![f] = FALSE]
    /\ ops' = ops + 1 /\ warning' = 0
    /\ removeFile(f)
    /\ UNCHANGED <<fsMtime, cacheFile, flagVars, timerVars, disposed, taskVars>>

\* one clock tick of the debounce window passes
Tick ==
    /\ ~InTick
    /\ debounceTimer > 0
    /\ debounceTimer' = debounceTimer - 1
    /\ UNCHANGED <<fsVars, tableVars, flagVars, pendingDiskWrites, pendingFileChanges,
                   diskSaveTimer, disposed, taskVars, ops>> /\ warning' = 0


(***************************************************************************)
(* Incremental re-indexing: processPendingFileChanges and invalidateFile.  *)
(***************************************************************************)
\* batchSize of processPendingFileChanges
changeBatchSize(totalFiles) == Max(1, totalFiles \div 10)

\* The batch loop of processPendingFileChanges from index i on, up to its
\* next real wait.  invalidateFile runs statSync at once: a file that
\* cannot be stat-ed is dropped from both tables on the spot, the others
\* wait for openTextDocument.  A batch without waiting file is followed by
\* the next one.
RECURSIVE changeLoop(_, _, _, _)
changeLoop(files, i, c, m) ==
    IF i >= Len(files)
    THEN [finished |-> TRUE, i |-> i, tasks |-> NoTasks, cache |-> c, mods |-> m]
    ELSE LET batch == Slice(files, i, changeBatchSize(Len(files)))
             gone == {f \in batch : ~fsExists[f]}
             c2 == [f \in (DOMAIN c) \ gone |-> c[f]]
             m2 == [f \in (DOMAIN m) \ gone |-> m[f]]
         IN  IF batch \ gone = {}
             THEN changeLoop(files, i + changeBatchSize(Len(files)), c2, m2)
             ELSE [finished |-> FALSE, i |-> i,
                   tasks |-> [f \in Files |-> IF f \in batch \ gone
                                              THEN Reading(fsMtime[f]) ELSE NoTask],
                   cache |-> c2, mods |-> m2]

\* processPendingFileChanges run b goes on from index i with tables c, m;
\* at the end of the loop it calls debouncedSaveToDisk('batch'), which
\* arms the disk-save timer (performDebouncedSave) unless isIndexing
processChanges(b, files, i, c, m) ==
    LET r == changeLoop(files, i, c, m)
    IN  /\ cache' = r.cache
        /\ fileModTimes' = r.mods
        /\ IF ~r.finished
           THEN /\ batches' = [batches EXCEPT ![b] =
                       [pc |-> "run", files |-> files, i |-> r.i, tasks |-> r.tasks]]
                /\ UNCHANGED <<pendingDiskWrites, diskSaveTimer, orphanedSaves>>
           ELSE /\ pendingDiskWrites' = pendingDiskWrites \cup {"batch"}
                /\ IF ~isIndexing
                   THEN /\ diskSaveTimer' = b
                        /\ batches' = [x \in BatchIds |->
                               IF x = b THEN [Idle EXCEPT !.pc = "saving"]
                               ELSE IF x = diskSaveTimer THEN Idle
                               ELSE batches[x]]
                        /\ orphanedSaves' = orphanedSaves + (IF diskSaveTimer # 0 THEN 1 ELSE 0)
                   ELSE /\ batches' = [batches EXCEPT ![b] = Idle]
                        /\ UNCHANGED <<diskSaveTimer, orphanedSaves>>

\* the debounce timer fires: processPendingFileChanges() starts
DebounceFire ==
    /\ ~InTick
    /\ debounceTimer = 0
    /\ HasFreeBatch
    /\ debounceTimer' = -1
    /\ pendingFileChanges' = << >>
    /\ IF Len(pendingFileChanges) = 0
       THEN UNCHANGED <<tableVars, batches, pendingDiskWrites, diskSaveTimer, orphanedSaves>>
       ELSE processChanges(FreeBatch, pendingFileChanges, 0, cache, fileModTimes)
    /\ UNCHANGED <<fsVars, flagVars, disposed, passes, ops>> /\ warning' = 0

\* openTextDocument of an invalidateFile call completes
InvalidateRead(b, f) ==
    /\ ~InTick
    /\ batches[b].pc = "run"
    /\ batches[b].tasks[f].st = "reading"
    /\ \E t \in ReadOutcomes(batches[b].tasks[f], f) :
          batches' = [batches EXCEPT ![b].tasks[f] = t]
    /\ UNCHANGED <<fsVars, tableVars, flagVars, timerVars, disposed, passes,
                   orphanedSaves, ops>> /\ warning' = 0

\* the tables after the continuation of invalidateFile(f) for task t
invalidateFileCache(c, f, t) ==
    IF t.st = "read" THEN MapSet(c, f, extractSymbolsFromDocument(f, t.text))
    ELSE MapDelete(c, f)
\* invalidateFile whose error path forgets the mtime table
invalidateFileModTimes_KeepOnFailure(m, f, t) ==
    IF t.st = "read" THEN MapSet(m, f, t.mtime) ELSE m

invalidateFileModTimes(m, f, t) ==
    IF t.st = "read" THEN MapSet(m, f, t.mtime) ELSE MapDelete(m, f)

\* invalidateFile(f) resumes after openTextDocument and finishes; when it
\* was the last of its batch, processPendingFileChanges goes on
InvalidateDone(b, f) ==
    /\ ~InTick
    /\ batches[b].pc = "run"
    /\ batches[b].tasks[f].st \in {"read", "failed"}
    /\ LET t == batches[b].tasks[f]
           c1 == invalidateFileCache(cache, f, t)
           m1 == invalidateFileModTimes(fileModTimes, f, t)
           rest == [batches[b].tasks EXCEPT ![f] = NoTask]
       IN  IF Pending(rest) # {}
           THEN /\ cache' = c1
                /\ fileModTimes' = m1
                /\ batches' = [batches EXCEPT ![b].tasks = rest]
                /\ UNCHANGED <<pendingDiskWrites, diskSaveTimer, orphanedSaves>>
           ELSE processChanges(b, batches[b].files,
                               batches[b].i + changeBatchSize(Len(batches[b].files)), c1, m1)
    /\ UNCHANGED <<fsVars, flagVars, pendingFileChanges, debounceTimer, disposed,
                   passes, ops>> /\ warning' = 0

\* the disk-save timer fires: saveToDisk(), then the promise of the run
\* that armed the timer is resolved and that run ends
DiskSaveFire ==
    /\ ~InTick
    /\ diskSaveTimer # 0
    /\ cacheFile' = saveToDisk(cache, fileModTimes)
    /\ pendingDiskWrites' = {}
    /\ diskSaveTimer' = 0
    /\ batches' = [batches EXCEPT ![diskSaveTimer] = Idle]
    /\ UNCHANGED <<fsExists, fsMtime, tableVars, flagVars, pendingFileChanges,
                   debounceTimer, disposed, passes, orphanedSaves, ops>> /\ warning' = 0


(***************************************************************************)
(* Full indexing: ensureIndexed, rebuildIndex, clearAndRebuildIndex,       *)
(* performIndexing and parseFileIfNeeded.                                  *)
(***************************************************************************)
batchSize == 50

\* the synchronous head of rebuildIndex(): set the flag, run loadFromDisk()
\* and wait for its promise
rebuildIndex(p) ==
    /\ isIndexing' = TRUE
    /\ cache' = loadFromDiskCache(cacheFile, fsExists, fsMtime, cache)
    /\ fileModTimes' = loadFromDiskModTimes(cacheFile, fsExists, fsMtime, fileModTimes)
    /\ passes' = [passes EXCEPT ![p] = [Idle EXCEPT !.pc = "loading"]]
    /\ UNCHANGED <<fsVars, indexingPromise>>

\* a caller (activate) calls rebuildIndex()
RebuildIndex ==
    /\ ~disposed /\ ops < MaxOps /\ HasFreePass
    /\ ops' = ops + 1 /\ warning' = 0
    /\ rebuildIndex(FreePass)
    /\ UNCHANGED <<timerVars, disposed, batches, orphanedSaves>>

\* rebuildIndex() resumes after loadFromDisk(): performIndexing() starts,
\* its promise is stored, and it waits for workspace.findFiles
RebuildLoaded(p) ==
    /\ passes[p].pc = "loading"
    /\ indexingPromise' = p
    /\ passes' = [passes EXCEPT ![p].pc = "finding"]
    /\ UNCHANGED <<fsVars, tableVars, isIndexing, timerVars, disposed, batches,
                   orphanedSaves, ops>> /\ warning' = 0

\* clearAndRebuildIndex() that leaves the in-memory tables as they are
ClearAndRebuildIndex_KeepTables ==
    /\ ~disposed /\ ops < MaxOps /\ HasFreePass
    /\ ops' = ops + 1 /\ warning' = 0
    /\ isIndexing' = TRUE
    /\ cacheFile' = NoCacheFile
    /\ indexingPromise' = FreePass
    /\ passes' = [passes EXCEPT ![FreePass] = [Idle EXCEPT !.pc = "finding"]]
    /\ UNCHANGED <<fsExists, fsMtime, tableVars, timerVars, disposed, batches, orphanedSaves>>

\* a caller (the Rebuild Symbol Cache command) calls clearAndRebuildIndex()
ClearAndRebuildIndex ==
    /\ ~disposed /\ ops < MaxOps /\ HasFreePass
    /\ ops' = ops + 1 /\ warning' = 0
    /\ isIndexing' = TRUE
    /\ cache' = EmptyMap
    /\ fileModTimes' = EmptyMap
    /\ cacheFile' = NoCacheFile
    /\ indexingPromise' = FreePass
    /\ passes' = [passes EXCEPT ![FreePass] = [Idle EXCEPT !.pc = "finding"]]
    /\ UNCHANGED <<fsExists, fsMtime, timerVars, disposed, batches, orphanedSaves>>

\* the outcome of ensureIndexed(): the in-flight promise is returned
\* ("join"), nothing is done ("noop"), or rebuildIndex() is called ("start")
ensureIndexedOutcome ==
    IF isIndexing /\ indexingPromise # 0 THEN "join"
    ELSE IF Cardinality(DOMAIN cache) > 0 THEN "noop"
    ELSE "start"

\* a caller (listRubySymbols) calls ensureIndexed()
EnsureIndexed ==
    /\ ~disposed /\ ops < MaxOps
    /\ ensureIndexedOutcome = "start" => HasFreePass
    /\ ops' = ops + 1 /\ warning' = 0
    /\ IF ensureIndexedOutcome = "start"
       THEN rebuildIndex(FreePass)
       ELSE UNCHANGED <<fsVars, tableVars, flagVars, passes>>
    /\ UNCHANGED <<timerVars, disposed, batches, orphanedSaves>>

\* workspace.findFiles resolves in performIndexing: the file list is
\* ordered by prioritizeFiles and the batch loop is about to start
FindFilesDone(p) ==
    /\ ~InTick
    /\ passes[p].pc = "finding"
    /\ passes' = [passes EXCEPT ![p] =
            [pc |-> "ready", files |-> prioritizeFiles(findFiles(fsExists, 1)),
             i |-> 0, tasks |-> NoTasks]]
    /\ UNCHANGED <<fsVars, tableVars, flagVars, timerVars, disposed, batches,
                   orphanedSaves, ops>> /\ warning' = 0

\* workspace.findFiles rejects in performIndexing: performIndexing rejects,
\* and `await this.indexingPromise` throws in rebuildIndex() or
\* clearAndRebuildIndex(), which has no try/catch/finally: the call ends
\* there, before saveToDisk() and before the flag and the promise are reset
FindFilesFails(p) ==
    /\ ~InTick
    /\ passes[p].pc = "finding"
    /\ passes' = [passes EXCEPT ![p] = Idle]
    /\ UNCHANGED <<fsVars, tableVars, flagVars, timerVars, disposed, batches,
                   orphanedSaves, ops>> /\ warning' = 0

\* parseFileIfNeeded(f) that parses every file it can stat, whatever the
\* cached mtime
needsParse_Always(f) == fsExists[f]

\* the synchronous head of parseFileIfNeeded(f): statSync and the check
\* of the cached mtime; TRUE when the extractor has to be invoked
needsParse(f) ==
    /\ fsExists[f]
    /\ ~(f \in DOMAIN fileModTimes /\ fileModTimes[f] = fsMtime[f] /\ f \in DOMAIN cache)

\* performIndexing starts the next batch of its loop: each file that needs
\* parsing waits for its extraction; a batch without such a file is over
\* at once and the loop yields (setTimeout 0)
IndexingBatch(p) ==
    /\ ~InTick
    /\ passes[p].pc = "ready"
    /\ passes[p].i < Len(passes[p].files)
    /\ LET batch == Slice(passes[p].files, passes[p].i, batchSize)
           tasks == [f \in Files |-> IF f \in batch /\ needsParse(f)
                                     THEN Reading(fsMtime[f]) ELSE NoTask]
       IN  passes' = [passes EXCEPT ![p] =
               IF Pending(tasks) = {}
               THEN [@ EXCEPT !.i = @ + batchSize]
               ELSE [@ EXCEPT !.pc = "batch", !.tasks = tasks]]
    /\ UNCHANGED <<fsVars, tableVars, flagVars, timerVars, disposed, batches,
                   orphanedSaves, ops>> /\ warning' = 0

\* openTextDocument of an extraction completes before the timer of
\* withTimeout has run.  The continuation of extractSymbolsFromDocument then
\* parses the text synchronously, for however long that takes: the timer
\* callback cannot run before the parse is over and the promise of the
\* extraction has been resolved
ParseRead(p, f) ==
    /\ ~InTick
    /\ passes[p].pc = "batch"
    /\ passes[p].tasks[f].st = "reading"
    /\ \E t \in ReadOutcomes(passes[p].tasks[f], f) :
          passes' = [passes EXCEPT ![p].tasks[f] = t]
    /\ UNCHANGED <<fsVars, tableVars, flagVars, timerVars, disposed, batches,
                   orphanedSaves, ops>> /\ warning' = 0

\* the pass after one of its per-file tasks has ended: after the last task
\* of the batch the loop yields (setTimeout 0) before the next batch
taskEnded(pass, f) ==
    LET rest == [pass.tasks EXCEPT ![f] = NoTask]
    IN  IF Pending(rest) # {} THEN [pass EXCEPT !.tasks = rest]
        ELSE [pass EXCEPT !.pc = "ready", !.tasks = rest, !.i = @ + batchSize]

\* parseFileIfNeeded(f) resumes with the extracted symbols and stores
\* them, or with the read error, which it swallows
ParseDone(p, f) ==
    /\ ~InTick
    /\ passes[p].pc = "batch"
    /\ passes[p].tasks[f].st \in {"read", "failed"}
    /\ LET t == passes[p].tasks[f]
       IN  IF t.st = "read"
           THEN /\ cache' = MapSet(cache, f, extractSymbolsFromDocument(f, t.text))
                /\ fileModTimes' = MapSet(fileModTimes, f, t.mtime)
           ELSE UNCHANGED tableVars
    /\ passes' = [passes EXCEPT ![p] = taskEnded(@, f)]
    /\ UNCHANGED <<fsVars, flagVars, timerVars, disposed, batches, orphanedSaves, ops>> /\ warning' = 0

\* withTimeout: the timer runs while openTextDocument is still pending and
\* wins the race; parseFileIfNeeded(f) warns and returns, the file is skipped
ParseTimeout(p, f) ==
    /\ ~InTick
    /\ passes[p].pc = "batch"
    /\ passes[p].tasks[f].st = "reading"
    /\ passes' = [passes EXCEPT ![p] = taskEnded(@, f)]
    /\ warning' = f
    /\ UNCHANGED <<fsVars, tableVars, flagVars, timerVars, disposed, batches,
                   orphanedSaves, ops>>

\* the end of rebuildIndex/clearAndRebuildIndex without the reset of the
\* flag and of the promise
RebuildFinish_NoReset(p) ==
    /\ ~InTick
    /\ passes[p].pc = "ready"
    /\ passes[p].i >= Len(passes[p].files)
    /\ cacheFile' = saveToDisk(cache, fileModTimes)
    /\ passes' = [passes EXCEPT ![p] = Idle]
    /\ UNCHANGED <<fsExists, fsMtime, tableVars, flagVars, timerVars, disposed, batches,
                   orphanedSaves, ops>> /\ warning' = 0

\* The batch loop of performIndexing is over: performIndexing returns and,
\* in the same tick, rebuildIndex/clearAndRebuildIndex resumes, runs
\* saveToDisk() and resets the flag and the promise
RebuildFinish(p) ==
    /\ ~InTick
    /\ passes[p].pc = "ready"
    /\ passes[p].i >= Len(passes[p].files)
    /\ cacheFile' = saveToDisk(cache, fileModTimes)
    /\ isIndexing' = FALSE
    /\ indexingPromise' = 0
    /\ passes' = [passes EXCEPT ![p] = Idle]
    /\ UNCHANGED <<fsExists, fsMtime, tableVars, timerVars, disposed, batches,
                   orphanedSaves, ops>> /\ warning' = 0

\* dispose()
Dispose ==
    /\ ~InTick /\ ~disposed
    /\ disposed' = TRUE
    /\ debounceTimer' = -1
    /\ diskSaveTimer' = 0
    /\ orphanedSaves' = orphanedSaves + (IF diskSaveTimer # 0 THEN 1 ELSE 0)
    /\ batches' = [x \in BatchIds |-> IF x = diskSaveTimer THEN Idle ELSE batches[x]]
    /\ cacheFile' = saveToDisk(cache, fileModTimes)
    /\ cache' = EmptyMap
    /\ fileModTimes' = EmptyMap
    /\ pendingFileChanges' = << >>
    /\ pendingDiskWrites' = {}
    /\ UNCHANGED <<fsExists, fsMtime, flagVars, passes, ops>> /\ warning' = 0

(***************************************************************************)
(* History variables.  Each step of Next is a handler segment together     *)
(* with the bookkeeping of what it did.                                    *)
(***************************************************************************)
Occurrences(f, files, lo, hi) == Cardinality({k \in (lo + 1)..hi : files[k] = f})
\* how far a processPendingFileChanges run has got in its file list:
\* invalidateFile has been called for files[1..Covered]
Covered(run, files) ==
    IF run.pc = "run" THEN Min(run.i + changeBatchSize(Len(files)), Len(files))
    ELSE Len(files)

\* a create/change event for f
EventHist(f) ==
    /\ burst' = [burst EXCEPT ![f] = @ + 1]
    /\ sinceEvent' = 0
    /\ UNCHANGED <<owed, lastBurst, callHist>>
    /\ UNCHANGED <<callVars, fsFaulty, outside>>
    /\ overran' = 0
    /\ solo' = NoSolo

TickHist ==
    /\ sinceEvent' = Min(sinceEvent + 1, DebounceTicks)
    /\ UNCHANGED <<burst, owed, lastBurst, callHist>>
    /\ UNCHANGED <<callVars, fsFaulty, outside>>
    /\ overran' = 0
    /\ solo' = NoSolo

\* the snapshot of the pending set closes the bursts; run b starts
SnapshotHist(b) ==
    /\ burst' = [f \in Files |-> 0]
    /\ lastBurst' = burst
    /\ owed' = [f \in Files |-> owed[f] + (IF burst[f] > 0 THEN 1 ELSE 0)
                   - Occurrences(f, pendingFileChanges, 0,
                                 Covered(batches'[b], pendingFileChanges))]
    /\ UNCHANGED <<sinceEvent, callHist>>
    /\ UNCHANGED <<callVars, fsFaulty, outside>>
    /\ overran' = 0
    /\ solo' = NoSolo

\* run b has gone on in its file list
AdvanceHist(b) ==
    /\ owed' = [f \in Files |-> owed[f]
                   - Occurrences(f, batches[b].files,
                                 Covered(batches[b], batches[b].files),
                                 Covered(batches'[b], batches[b].files))]
    /\ UNCHANGED <<burst, sinceEvent, lastBurst, callHist>>
    /\ UNCHANGED <<callVars, fsFaulty, outside>>
    /\ overran' = 0
    /\ solo' = NoSolo

\* a step that none of the history variables records
OtherHist ==
    /\ UNCHANGED <<debounceHist, callHist>>
    /\ UNCHANGED <<callVars, fsFaulty, outside>>
    /\ overran' = 0
    /\ solo' = NoSolo

\* nothing is in flight and no timer is armed
Quiescent ==
    /\ \A p \in PassIds : passes[p].pc = "idle"
    /\ \A b \in BatchIds : batches[b].pc = "idle"
    /\ debounceTimer = -1 /\ diskSaveTimer = 0

\* a call of rebuildIndex() or clearAndRebuildIndex()
CallHist(isClear) ==
    /\ UNCHANGED <<debounceHist, callHist>>
    /\ UNCHANGED <<callVars, fsFaulty, outside>>
    /\ overran' = 0
    /\ solo' = IF isClear /\ Quiescent
               THEN [st |-> "run", pass |-> FreePass, before |-> DOMAIN fileModTimes,
                     invoked |-> {}, parsed |-> {}]
               ELSE NoSolo

\* a call of ensureIndexed()
EnsureHist ==
    /\ lastEnsure' = [outcome |-> ensureIndexedOutcome,
                      busy |-> \E p \in PassIds : passes[p].pc # "idle",
                      indexed |-> fullIndexDone]
    /\ UNCHANGED <<debounceHist, fullIndexDone>>
    /\ UNCHANGED <<callVars, fsFaulty, outside>>
    /\ overran' = 0
    /\ solo' = NoSolo

\* The extraction that ends in a step of pass p, if any, may have taken
\* longer than the per-file timeout.  It has when the timer of withTimeout
\* ends it.  It may have when its result ends it: the parse runs
\* synchronously once the document is there, for however long it takes,
\* and the timer callback cannot run before the promise of the extraction
\* has been settled.
Overrun(p) ==
    LET ended == {f \in Files : /\ passes[p].pc = "batch"
                                /\ passes[p].tasks[f].st \in {"reading", "read"}
                                /\ passes'[p].tasks[f].st = "none"}
    IN  IF ended = {} THEN {0}
        ELSE LET f == CHOOSE x \in ended : TRUE
             IN  IF passes[p].tasks[f].st = "reading" THEN {f} ELSE {0, f}

\* a step of pass p
PassHist(p) ==
    /\ UNCHANGED <<debounceHist, lastEnsure>>
    /\ fullIndexDone' = (fullIndexDone \/ (passes[p].pc = "ready" /\ passes'[p].pc = "idle"))
    /\ UNCHANGED <<callVars, fsFaulty, outside>>
    /\ overran' \in Overrun(p)
    /\ solo' = IF solo.st = "run" /\ solo.pass = p
               THEN [st |-> IF passes'[p].pc = "idle" THEN "done" ELSE "run",
                     pass |-> p, before |-> solo.before,
                     invoked |-> solo.invoked \cup
                        {f \in Files : passes[p].tasks[f].st = "none"
                                       /\ passes'[p].tasks[f].st = "reading"},
                     parsed |-> solo.parsed \cup
                        {f \in Files : passes[p].tasks[f].st = "read"
                                       /\ passes'[p].tasks[f].st = "none"
                                       /\ cache' # cache}]
               ELSE NoSolo

vars == <<fsExists, fsMtime, cacheFile, cache, fileModTimes, isIndexing, indexingPromise,
          pendingDiskWrites, pendingFileChanges, debounceTimer, diskSaveTimer, disposed,
          passes, batches, orphanedSaves, ops, warning, fsFaulty, outside,
          burst, sinceEvent, owed, lastBurst, lastEnsure, fullIndexDone, solo, overran,
          prioCall, pruneCall, parseCall, nameCall>>

Next ==
    \/ \E f \in Files : OnDidChange(f) /\ EventHist(f)
    \/ \E f \in Files : OnDidCreate(f) /\ EventHist(f)
    \/ \E f \in Files : OnDidDelete(f) /\ OtherHist
    \/ Tick /\ TickHist
    \/ DebounceFire /\ SnapshotHist(FreeBatch)
    \/ \E b \in BatchIds, f \in Files : InvalidateRead(b, f) /\ OtherHist
    \/ \E b \in BatchIds, f \in Files : InvalidateDone(b, f) /\ AdvanceHist(b)
    \/ DiskSaveFire /\ OtherHist
    \/ RebuildIndex /\ CallHist(FALSE)
    \/ \E p \in PassIds : RebuildLoaded(p) /\ PassHist(p)
    \/ ClearAndRebuildIndex /\ CallHist(TRUE)
    \/ EnsureIndexed /\ EnsureHist
    \/ \E p \in PassIds : FindFilesDone(p) /\ PassHist(p)
    \/ \E p \in PassIds : IndexingBatch(p) /\ PassHist(p)
    \/ \E p \in PassIds, f \in Files : ParseRead(p, f) /\ PassHist(p)
    \/ \E p \in PassIds, f \in Files : ParseDone(p, f) /\ PassHist(p)
    \/ \E p \in PassIds, f \in Files : ParseTimeout(p, f) /\ PassHist(p)
    \/ \E p \in PassIds : RebuildFinish(p) /\ PassHist(p)

Spec == Init /\ [][Next]_vars

(***************************************************************************)
(* Calls of the pure functions on arguments drawn from bounded sets.  The  *)
(* SymbolCache itself stays as constructed.                                *)
(***************************************************************************)
symbolCacheVars == <<fsVars, tableVars, flagVars, timerVars, disposed, taskVars, envVars,
                     fsFaulty, outside, debounceHist, callHist, solo, overran>>
SymbolCacheFresh ==
    /\ SymbolCacheInit
    /\ fsExists = [f \in Files |-> TRUE]
    /\ cacheFile = NoCacheFile

\* the file lists of findFiles: no path twice
RECURSIVE FileLists(_)
FileLists(n) ==
    IF n = 0 THEN {<< >>}
    ELSE LET shorter == FileLists(n - 1)
         IN  shorter \cup {Append(l, f) : l \in {x \in shorter : Len(x) = n - 1},
                                          f \in 1..NumPaths}
DistinctFileLists ==
    {l \in FileLists(MaxListLen) : \A i, j \in 1..Len(l) : l[i] = l[j] => i = j}

\* values of the setting rubynavigate.priorityDirectories
PrioritySettings ==
    { << >>,
      priorityDirs,
      << <<"lib">>, <<"app", "models">> >>,
      << <<"spec">>, <<"app">>, <<"app", "models">>, <<"vendor">> >> }

InitPrioritize ==
    /\ SymbolCacheFresh
    /\ prioCall \in {[st |-> "called", dirs |-> d, files |-> l] :
                        d \in PrioritySettings, l \in DistinctFileLists}
    /\ pruneCall = NoCall
    /\ parseCall = NoCall
    /\ nameCall = NoCall

\* prioritizeFiles(files) runs under the setting dirs
PrioritizeFiles ==
    /\ prioCall.st = "called"
    /\ prioCall' = [st |-> "returned", dirs |-> prioCall.dirs, files |-> prioCall.files,
                    result |-> prioritizeFilesWith(prioCall.dirs, prioCall.files)]
    /\ UNCHANGED <<symbolCacheVars, pruneCall, parseCall, nameCall>>

NextPrioritize == PrioritizeFiles

SpecPrioritize == InitPrioritize /\ [][NextPrioritize]_vars

\* an entry of path f with n symbols, as saveToDisk builds it
EntryOf(f, n, mtime) ==
    CachedFileEntry([k \in 1..n |-> extractSymbolsFromDocument(f, k)[1]], mtime)
\* the cache data over the paths 1..n: each path absent or with an entry
RECURSIVE CacheDatas(_)
CacheDatas(n) ==
    IF n = 0 THEN {EmptyMap}
    ELSE LET rest == CacheDatas(n - 1)
         IN  rest \cup {MapSet(d, n, EntryOf(n, k, t)) :
                            d \in rest, k \in 0..MaxSymbols, t \in 1..MaxMtime}
\* values of maxSizeBytes: the setting rubynavigate.maxCacheSizeMB, scaled
\* down to the size of the cache data above
CacheCaps == {100, 200, 300, 450}

InitPrune ==
    /\ SymbolCacheFresh
    /\ prioCall = NoCall
    /\ pruneCall \in {[st |-> "called", maxSizeBytes |-> c, cacheData |-> d] :
                         c \in CacheCaps, d \in CacheDatas(NumEntries)}
    /\ parseCall = NoCall
    /\ nameCall = NoCall

\* pruneIfNeeded(cacheData) runs under the cap maxSizeBytes
PruneIfNeeded ==
    /\ pruneCall.st = "called"
    /\ pruneCall' = [st |-> "returned", maxSizeBytes |-> pruneCall.maxSizeBytes,
                     cacheData |-> pruneCall.cacheData,
                     result |-> pruneIfNeededWith(pruneCall.maxSizeBytes,
                                                  pruneCall.cacheData)]
    /\ UNCHANGED <<symbolCacheVars, prioCall, parseCall, nameCall>>

NextPrune == PruneIfNeeded

SpecPrune == InitPrune /\ [][NextPrune]_vars

(***************************************************************************)
(* The symbol extractor (src/src/rubyParser.ts).  A text is its lines and  *)
(* the line terminators between them; a line is its indentation, its       *)
(* leading keyword, the name that follows as a sequence of tokens, and the *)
(* rest of the line.  The lines drawn below are declarations (`class X`,   *)
(* `module X`, `class X::Y`, `class X; end`), `end`, `def x`, `X = 1`,     *)
(* `scope :x`, `def self.x`, `def X.x`, `class << self`, `included do`,    *)
(* `if x`, `private` and the empty line.                                   *)
(***************************************************************************)
LF == "\n"
CRLF == "\r\n"
EolLength(eol) == IF eol = CRLF THEN 2 ELSE 1

RubyLine(indent, kind, kw, raw, tail) ==
    [indent |-> indent, kind |-> kind, kw |-> kw, raw |-> raw, tail |-> tail]

\* the length of the string that the tokens spell
RECURSIVE StrLength(_)
StrLength(tokens) ==
    IF tokens = << >> THEN 0 ELSE Len(Head(tokens)) + StrLength(Tail(tokens))

\* the column at which the name of a line starts: behind the indentation
\* and, if there is a keyword, the keyword and one blank
\* what stands between the keyword and the name: `scope :x`, `def self.x`
Sigil(line) ==
    IF line.kind = "scope" THEN ":" ELSE IF line.kind = "selfdef" THEN "self." ELSE ""
NameColumn(line) ==
    line.indent + (IF line.kw = "" THEN 0 ELSE Len(line.kw) + 1) + Len(Sigil(line))
\* line.length
LineLength(line) ==
    IF line.kind = "end" THEN line.indent + Len(line.kw)
    ELSE NameColumn(line) + StrLength(line.raw) + Len(line.tail)

\* text.split(/\r?\n/) gives back text.lines; text.includes('\r\n')
hasCRLF(text) == \E i \in DOMAIN text.eols : text.eols[i] = CRLF
lineEndingLength(text) == IF hasCRLF(text) THEN 2 ELSE 1

\* the regular expressions, on the lines drawn here
endRegex(line) == line.kind = "end"
declRegex(line) == line.kind = "decl"
constantRegex(line) == line.kind = "const"
instanceMethodRegex(line) == line.kind = "def"
classShovelRegex(line) == line.kind = "shovel"
scopeRegex(line) == line.kind = "scope"
receiverMethodRegex(line) == line.kind = "recvdef"
classMethodRegex(line) == line.kind = "selfdef"
otherBlockRegex(line) == line.kind \in {"def", "selfdef", "recvdef", "block"}
\* the rests of a line that hold the word `do`, and the word `end`
DoTails == {" do", "do", " do x end", "do x end"}
EndTails == {"; end", " do x end", "do x end"}
\* /\bdo\b/.test(line)
DoOnLine(line) == line.tail \in DoTails
\* /\bend\b/.test(afterDecl), /\bend\b/.test(afterDef), /\bend\b/.test(line)
EndOnSameLine(line) == line.tail \in EndTails

NoName == << >>
NoSymbol == 0
\* [...names].join('::'), the names being token sequences
RECURSIVE JoinNames(_)
JoinNames(names) ==
    IF names = << >> THEN << >>
    ELSE IF Len(names) = 1 THEN names[1]
    ELSE names[1] \o <<"::">> \o JoinNames(Tail(names))

getPrefix_FromBottom(stack) ==
    LET named == SelectSeq(stack, LAMBDA fr : fr.name # NoName)
    IN  [i \in 1..Len(named) |-> named[i].name]
getPrefix(stack) ==
    LET absolutes == {i \in 1..Len(stack) : stack[i].absolute}
        startIndex == IF absolutes = {} THEN 1
                      ELSE CHOOSE i \in absolutes : \A j \in absolutes : j <= i
        named == SelectSeq(SubSeq(stack, startIndex, Len(stack)),
                           LAMBDA fr : fr.name # NoName)
    IN  [i \in 1..Len(named) |-> named[i].name]

getCurrentNamespace_TopFrame(stack) ==
    IF stack = << >> THEN NoName ELSE stack[Len(stack)].name
getCurrentNamespace(stack) ==
    LET frames == {i \in 1..Len(stack) : /\ stack[i].type \in {"class", "module"}
                                         /\ stack[i].name # NoName}
    IN  IF frames = {} THEN NoName
        ELSE stack[CHOOSE i \in frames : \A j \in frames : j <= i].name

\* the locals that a call declares: symbols, offset, stack.  `left` is
\* what the call before left behind, of which a call takes nothing
NothingLeft == [symbols |-> << >>, offset |-> 0, stack |-> << >>]
NewLocals_Leftover(left) == [left EXCEPT !.symbols = << >>]
NewLocals(left) == [symbols |-> << >>, offset |-> 0, stack |-> << >>]

\* the `end` branch: pop the innermost frame and widen its symbol
EndLine_NoPop(locals, line, eol) ==
    [locals EXCEPT !.offset = @ + LineLength(line) + eol]
EndLine(locals, line, eol) ==
    LET stack == locals.stack
        popped == stack[Len(stack)]
        symIdx == popped.symbolIndex
        symStart == locals.symbols[symIdx].index
        endIndex == locals.offset + LineLength(line)
        newLength == Max(locals.symbols[symIdx].length, endIndex - symStart + eol)
        symbols == IF symIdx # NoSymbol
                   THEN [locals.symbols EXCEPT ![symIdx].length = newLength]
                   ELSE locals.symbols
    IN  IF Len(stack) > 0
        THEN [symbols |-> symbols,
              stack |-> SubSeq(stack, 1, Len(stack) - 1),
              offset |-> locals.offset + LineLength(line) + eol]
        ELSE [locals EXCEPT !.offset = @ + LineLength(line) + eol]

\* the declaration branch
DeclLine(locals, line, eol) ==
    LET rawName == line.raw
        isQualified == Len(rawName) > 1
        prefix == IF isQualified THEN << >> ELSE getPrefix(locals.stack)
        fullName == JoinNames(Append(prefix, rawName))
        nameIndexInLine == NameColumn(line)
        nameIndex == locals.offset + nameIndexInLine
        symbolIndex == Len(locals.symbols) + 1
        newLength == LineLength(line) - nameIndexInLine + eol
        length == IF EndOnSameLine(line) THEN Max(StrLength(rawName), newLength)
                  ELSE StrLength(rawName)
    IN  [symbols |-> Append(locals.symbols,
                            [name |-> fullName, index |-> nameIndex, length |-> length]),
         stack |-> IF EndOnSameLine(line) THEN locals.stack
                   ELSE Append(locals.stack,
                               [type |-> line.kw, name |-> fullName,
                                absolute |-> isQualified, symbolIndex |-> symbolIndex]),
         offset |-> locals.offset + LineLength(line) + eol]

\* the constant branch
ConstantLine(locals, line, eol) ==
    LET constantName == line.raw
        currentNamespace == getCurrentNamespace(locals.stack)
        fullName == IF currentNamespace # NoName
                    THEN currentNamespace \o <<"::">> \o constantName
                    ELSE constantName
        nameIndex == locals.offset + NameColumn(line)
    IN  [locals EXCEPT
            !.symbols = Append(@, [name |-> fullName, index |-> nameIndex,
                                   length |-> StrLength(constantName)]),
            !.offset = @ + LineLength(line) + eol]

\* the instance method branch
InstanceMethodLine(locals, line, eol) ==
    LET methodName == line.raw
        currentNamespace == getCurrentNamespace(locals.stack)
        fullName == IF currentNamespace # NoName
                    THEN currentNamespace \o <<"#">> \o methodName
                    ELSE methodName
        nameIndex == locals.offset
        entireDefLength == NameColumn(line) + StrLength(methodName)
        symbolIndex == Len(locals.symbols) + 1
        newLength == LineLength(line) + eol
        length == IF EndOnSameLine(line) THEN Max(entireDefLength, newLength)
                  ELSE entireDefLength
    IN  [symbols |-> Append(locals.symbols,
                            [name |-> fullName, index |-> nameIndex, length |-> length]),
         stack |-> IF EndOnSameLine(line) THEN locals.stack
                   ELSE Append(locals.stack,
                               [type |-> "other", name |-> NoName,
                                absolute |-> FALSE, symbolIndex |-> symbolIndex]),
         offset |-> locals.offset + LineLength(line) + eol]

\* stack.push({ type: 'other' })
OtherFrame == [type |-> "other", name |-> NoName, absolute |-> FALSE, symbolIndex |-> NoSymbol]
\* a line that opens a block without a symbol (`class << self`, `included
\* do`, `if x`): push an anonymous frame
BlockLine(locals, line, eol) ==
    [locals EXCEPT !.stack = Append(@, OtherFrame),
                   !.offset = @ + LineLength(line) + eol]

\* the scope branch
ScopeLine(locals, line, eol) ==
    LET scopeName == line.raw
        currentNamespace == getCurrentNamespace(locals.stack)
        fullName == IF currentNamespace # NoName
                    THEN currentNamespace \o <<".">> \o scopeName
                    ELSE scopeName
        nameIndex == locals.offset + NameColumn(line)
    IN  [symbols |-> Append(locals.symbols,
                            [name |-> fullName, index |-> nameIndex,
                             length |-> StrLength(scopeName)]),
         stack |-> IF DoOnLine(line) THEN Append(locals.stack, OtherFrame)
                   ELSE locals.stack,
         offset |-> locals.offset + LineLength(line) + eol]

\* a method record from `def` to the end of the method name, widened to the
\* end of the line for a one-liner, else with a frame for the method body
MethodRecord_AlwaysPush(locals, line, eol, fullName) ==
    LET nameIndex == locals.offset
        entireDefLength == NameColumn(line) + StrLength(line.raw)
        symbolIndex == Len(locals.symbols) + 1
        newLength == LineLength(line) + eol
        length == IF EndOnSameLine(line) THEN Max(entireDefLength, newLength)
                  ELSE entireDefLength
    IN  [symbols |-> Append(locals.symbols,
                            [name |-> fullName, index |-> nameIndex, length |-> length]),
         stack |-> Append(locals.stack,
                          [type |-> "other", name |-> NoName,
                           absolute |-> FALSE, symbolIndex |-> symbolIndex]),
         offset |-> locals.offset + LineLength(line) + eol]
MethodRecord(locals, line, eol, fullName) ==
    LET nameIndex == locals.offset
        entireDefLength == NameColumn(line) + StrLength(line.raw)
        symbolIndex == Len(locals.symbols) + 1
        newLength == LineLength(line) + eol
        length == IF EndOnSameLine(line) THEN Max(entireDefLength, newLength)
                  ELSE entireDefLength
    IN  [symbols |-> Append(locals.symbols,
                            [name |-> fullName, index |-> nameIndex, length |-> length]),
         stack |-> IF EndOnSameLine(line) THEN locals.stack
                   ELSE Append(locals.stack,
                               [type |-> "other", name |-> NoName,
                                absolute |-> FALSE, symbolIndex |-> symbolIndex]),
         offset |-> locals.offset + LineLength(line) + eol]
\* the receiver method branch: `def Receiver.m`, line.raw is Receiver.m
ReceiverMethodLine(locals, line, eol) == MethodRecord(locals, line, eol, line.raw)
\* the class method branch: `def self.m`
ClassMethodLine(locals, line, eol) ==
    LET currentNamespace == getCurrentNamespace(locals.stack)
    IN  MethodRecord(locals, line, eol,
                     IF currentNamespace # NoName
                     THEN currentNamespace \o <<".">> \o line.raw
                     ELSE line.raw)

\* one turn of the loop over the lines
ParseLine(locals, line, isLastLine, eolLength) ==
    LET eol == IF isLastLine THEN 0 ELSE eolLength
    IN  IF endRegex(line) THEN EndLine(locals, line, eol)
        ELSE IF classShovelRegex(line) THEN BlockLine(locals, line, eol)
        ELSE IF declRegex(line) THEN DeclLine(locals, line, eol)
        ELSE IF constantRegex(line) THEN ConstantLine(locals, line, eol)
        ELSE IF scopeRegex(line) THEN ScopeLine(locals, line, eol)
        ELSE IF receiverMethodRegex(line) THEN ReceiverMethodLine(locals, line, eol)
        ELSE IF classMethodRegex(line) THEN ClassMethodLine(locals, line, eol)
        ELSE IF instanceMethodRegex(line) THEN InstanceMethodLine(locals, line, eol)
        ELSE IF DoOnLine(line) /\ ~EndOnSameLine(line) THEN BlockLine(locals, line, eol)
        ELSE IF otherBlockRegex(line) THEN BlockLine(locals, line, eol)
        ELSE [locals EXCEPT !.offset = @ + LineLength(line) + eol]

RECURSIVE ParseLoop(_, _, _)
ParseLoop(locals, text, i) ==
    IF i > Len(text.lines) THEN locals
    ELSE ParseLoop(ParseLine(locals, text.lines[i], i = Len(text.lines),
                             lineEndingLength(text)),
                   text, i + 1)

\* the locals of a call at the start of the turn for line i
RECURSIVE LocalsBefore(_, _)
LocalsBefore(text, i) ==
    IF i = 1 THEN NewLocals(NothingLeft)
    ELSE ParseLine(LocalsBefore(text, i - 1), text.lines[i - 1], FALSE,
                   lineEndingLength(text))

\* the locals of a call at the end of the turn for line i
LocalsAfter(text, i) ==
    ParseLine(LocalsBefore(text, i), text.lines[i], i = Len(text.lines),
              lineEndingLength(text))

\* a call of parseRubySymbolsFromText(text), up to its return: the locals
\* at the return, of which .symbols is returned
RunParser(left, text) == ParseLoop(NewLocals(left), text, 1)
parseRubySymbolsFromText(text) == RunParser(NothingLeft, text).symbols

(***************************************************************************)
(* Calls of parseRubySymbolsFromText on texts drawn from a bounded set:    *)
(* one text is parsed, and parsed again, directly or after a call on       *)
(* another text.                                                           *)
(***************************************************************************)
RubyLines ==
    { RubyLine(0, "decl", "module", <<"Foo">>, ""),
      RubyLine(2, "decl", "class", <<"Bar">>, ""),
      RubyLine(4, "decl", "class", <<"Baz">>, ""),
      RubyLine(0, "decl", "class", <<"Foo", "::", "Bar">>, ""),
      RubyLine(2, "decl", "class", <<"Par">>, "; end"),
      RubyLine(0, "end", "end", << >>, ""),
      RubyLine(2, "def", "def", <<"run">>, ""),
      RubyLine(2, "const", "", <<"MAX">>, " = 1"),
      RubyLine(0, "plain", "", << >>, "") }

\* the texts of one to MaxLines lines, each line break LF or CRLF
RubyTexts ==
    UNION { [lines : [1..n -> RubyLines], eols : [1..(n - 1) -> {LF, CRLF}]] :
            n \in 1..MaxLines }
\* the text of the calls in between: it leaves a frame open
OtherText ==
    [lines |-> << RubyLine(0, "decl", "class", <<"Zed">>, ""),
                  RubyLine(0, "plain", "", << >>, "") >>,
     eols |-> <<CRLF>>]

\* texts of classes with their members, and texts with one-line
\* definitions and `do` blocks, all with LF line breaks
MemberLines ==
    { RubyLine(0, "decl", "class", <<"Foo">>, ""),
      RubyLine(2, "decl", "class", <<"Bar">>, ""),
      RubyLine(0, "end", "end", << >>, ""),
      RubyLine(2, "plain", "", << >>, "private"),
      RubyLine(2, "def", "def", <<"run">>, ""),
      RubyLine(2, "selfdef", "def", <<"make">>, ""),
      RubyLine(2, "recvdef", "def", <<"Zed", ".", "make">>, ""),
      RubyLine(2, "const", "", <<"MAX">>, " = 1"),
      RubyLine(2, "scope", "scope", <<"recent">>, ", -> { x }"),
      RubyLine(2, "shovel", "class", << >>, "<< self"),
      RubyLine(2, "call", "included", << >>, "do") }
BlockLines ==
    { RubyLine(0, "decl", "class", <<"Foo">>, ""),
      RubyLine(2, "decl", "class", <<"Par">>, "; end"),
      RubyLine(2, "def", "def", <<"run">>, "; end"),
      RubyLine(2, "selfdef", "def", <<"make">>, "; end"),
      RubyLine(2, "recvdef", "def", <<"Zed", ".", "make">>, "; end"),
      RubyLine(0, "end", "end", << >>, ""),
      RubyLine(2, "scope", "scope", <<"recent">>, ", -> { x }"),
      RubyLine(2, "scope", "scope", <<"recent">>, " do x end"),
      RubyLine(2, "scope", "scope", <<"recent">>, " do"),
      RubyLine(2, "call", "included", << >>, "do"),
      RubyLine(2, "call", "included", << >>, "do x end"),
      RubyLine(2, "block", "if", << >>, "x"),
      RubyLine(2, "const", "", <<"MAX">>, " = 1") }
TextsOf(lines) ==
    UNION { [lines : [1..n -> lines], eols : [1..(n - 1) -> {LF}]] : n \in 1..MaxLines }
ParseCallOn(texts) ==
    {[st |-> "called", text |-> t, left |-> NothingLeft,
      between |-> FALSE, first |-> << >>, second |-> << >>] : t \in texts}

InitMembers ==
    /\ SymbolCacheFresh
    /\ prioCall = NoCall
    /\ pruneCall = NoCall
    /\ parseCall \in ParseCallOn(TextsOf(MemberLines))
    /\ nameCall = NoCall
InitBlocks ==
    /\ SymbolCacheFresh
    /\ prioCall = NoCall
    /\ pruneCall = NoCall
    /\ parseCall \in ParseCallOn(TextsOf(BlockLines))
    /\ nameCall = NoCall

InitParser ==
    /\ SymbolCacheFresh
    /\ prioCall = NoCall
    /\ pruneCall = NoCall
    /\ parseCall \in {[st |-> "called", text |-> t, left |-> NothingLeft,
                       between |-> FALSE, first |-> << >>, second |-> << >>] :
                         t \in RubyTexts}
    /\ nameCall = NoCall

\* the first call on the text
ParseText ==
    /\ parseCall.st = "called"
    /\ LET run == RunParser(parseCall.left, parseCall.text)
       IN  parseCall' = [parseCall EXCEPT !.st = "once", !.left = run,
                                          !.first = run.symbols]
    /\ UNCHANGED <<symbolCacheVars, prioCall, pruneCall, nameCall>>

\* a call on another text in between
ParseOtherText ==
    /\ parseCall.st = "once"
    /\ parseCall' = [parseCall EXCEPT !.left = RunParser(parseCall.left, OtherText),
                                      !.between = TRUE]
    /\ UNCHANGED <<symbolCacheVars, prioCall, pruneCall, nameCall>>

\* the second call on the text
ParseTextAgain ==
    /\ parseCall.st = "once"
    /\ LET run == RunParser(parseCall.left, parseCall.text)
       IN  parseCall' = [parseCall EXCEPT !.st = "twice", !.left = run,
                                          !.second = run.symbols]
    /\ UNCHANGED <<symbolCacheVars, prioCall, pruneCall, nameCall>>

NextParser ==
    \/ ParseText
    \/ ParseOtherText
    \/ ParseTextAgain

SpecParser == InitParser /\ [][NextParser]_vars

\* one call on a text
NextParseText == ParseText
SpecMembers == InitMembers /\ [][NextParseText]_vars
SpecBlocks == InitBlocks /\ [][NextParseText]_vars

(***************************************************************************)
(* The matcher, the ranker and the classifier of names (rubyParser.ts).    *)
(* A string is the sequence of its characters.                             *)
(***************************************************************************)
UpperCase == <<"A", "B", "C", "D", "E", "F", "G", "H", "I", "J", "K", "L", "M",
               "N", "O", "P", "Q", "R", "S", "T", "U", "V", "W", "X", "Y", "Z">>
LowerCase == <<"a", "b", "c", "d", "e", "f", "g", "h", "i", "j", "k", "l", "m",
               "n", "o", "p", "q", "r", "s", "t", "u", "v", "w", "x", "y", "z">>
WhiteSpace == {" ", "\t"}
LowerChar(c) ==
    IF \E i \in 1..Len(UpperCase) : UpperCase[i] = c
    THEN LowerCase[CHOOSE i \in 1..Len(UpperCase) : UpperCase[i] = c]
    ELSE c
UpperChar(c) ==
    IF \E i \in 1..Len(LowerCase) : LowerCase[i] = c
    THEN UpperCase[CHOOSE i \in 1..Len(LowerCase) : LowerCase[i] = c]
    ELSE c
\* String.prototype.toLowerCase, toUpperCase, trim, startsWith, endsWith,
\* indexOf, includes, slice
toLowerCase(s) == [i \in 1..Len(s) |-> LowerChar(s[i])]
toUpperCase(s) == [i \in 1..Len(s) |-> UpperChar(s[i])]
trim(s) ==
    LET inked == {i \in 1..Len(s) : s[i] \notin WhiteSpace}
    IN  IF inked = {} THEN << >>
        ELSE SubSeq(s, CHOOSE i \in inked : \A j \in inked : i <= j,
                       CHOOSE i \in inked : \A j \in inked : j <= i)
startsWith(s, prefix) == Len(prefix) <= Len(s) /\ SubSeq(s, 1, Len(prefix)) = prefix
endsWith(s, suffix) ==
    Len(suffix) <= Len(s) /\ SubSeq(s, Len(s) - Len(suffix) + 1, Len(s)) = suffix
\* the positions, counted from 0, at which part occurs in s
OccurrencesOf(s, part) ==
    {i \in 0..(Len(s) - Len(part)) : SubSeq(s, i + 1, i + Len(part)) = part}
indexOf(s, part) ==
    IF OccurrencesOf(s, part) = {} THEN -1
    ELSE CHOOSE i \in OccurrencesOf(s, part) : \A j \in OccurrencesOf(s, part) : i <= j
includes(s, part) == indexOf(s, part) # -1
\* s.slice(n) and s.slice(0, -n)
sliceFrom(s, n) == SubSeq(s, n + 1, Len(s))
sliceOff(s, n) == SubSeq(s, 1, Len(s) - n)

matchesRubySymbol_AbsoluteContains(name, term) ==
    LET normalized == toLowerCase(trim(term))
        absoluteLookup == startsWith(normalized, <<":", ":">>)
        target == IF absoluteLookup THEN sliceFrom(normalized, 2) ELSE normalized
        nameLower == toLowerCase(name)
    IN  IF Len(normalized) = 0 THEN TRUE
        ELSE IF endsWith(target, <<":", ":">>)
        THEN LET namespace == sliceOff(target, 2)
             IN  nameLower = namespace \/ startsWith(nameLower, namespace \o <<":", ":">>)
        ELSE IF endsWith(target, <<".">>)
        THEN LET namespace == sliceOff(target, 1)
             IN  startsWith(nameLower, namespace \o <<".">>)
        ELSE includes(nameLower, target)
matchesRubySymbol_NamespacePrefix(name, term) ==
    LET normalized == toLowerCase(trim(term))
        absoluteLookup == startsWith(normalized, <<":", ":">>)
        target == IF absoluteLookup THEN sliceFrom(normalized, 2) ELSE normalized
        nameLower == toLowerCase(name)
    IN  IF Len(normalized) = 0 THEN TRUE
        ELSE IF endsWith(target, <<":", ":">>)
        THEN startsWith(nameLower, sliceOff(target, 2))
        ELSE IF endsWith(target, <<".">>)
        THEN startsWith(nameLower, sliceOff(target, 1))
        ELSE IF absoluteLookup THEN startsWith(nameLower, target)
        ELSE includes(nameLower, target)
matchesRubySymbol(name, term) ==
    LET normalized == toLowerCase(trim(term))
        absoluteLookup == startsWith(normalized, <<":", ":">>)
        target == IF absoluteLookup THEN sliceFrom(normalized, 2) ELSE normalized
        nameLower == toLowerCase(name)
    IN  IF Len(normalized) = 0 THEN TRUE
        ELSE IF endsWith(target, <<":", ":">>)
        THEN LET namespace == sliceOff(target, 2)
             IN  nameLower = namespace \/ startsWith(nameLower, namespace \o <<":", ":">>)
        ELSE IF endsWith(target, <<".">>)
        THEN LET namespace == sliceOff(target, 1)
             IN  startsWith(nameLower, namespace \o <<".">>)
        ELSE IF absoluteLookup THEN startsWith(nameLower, target)
        ELSE includes(nameLower, target)

(***************************************************************************)
(* Calls of matchesRubySymbol on names and terms drawn from bounded sets.  *)
(***************************************************************************)
StringsUpTo(alphabet, n) == UNION {[1..k -> alphabet] : k \in 0..n}
NameChars == {"A", "a", ":", "."}
TermChars == {"A", ":", ".", " "}
\* names and terms of the repository's tests and documentation
ExampleNames ==
    { <<"F", "o", "o">>,
      <<"F", "o", "o", ":", ":", "B", "a", "r">>,
      <<"F", "o", "o", ":", ":", "B", "A", "R">>,
      <<"F", "o", "o", ".", "b", "a", "r">>,
      <<"F", "o", "o", "#", "r", "u", "n">>,
      <<"B", "a", "z", ":", ":", "F", "o", "o", ":", ":", "B", "a", "r">>,
      <<"P", "o", "s", "t">>,
      <<"P", "o", "s", "t", ".", "p", "u", "b", "l", "i", "s", "h", "e", "d">>,
      <<"P", "o", "s", "t", ":", ":", "S", "T", "A", "T", "U", "S">> }
ExampleTerms ==
    { <<"F", "o", "o", ":", ":">>,
      <<"P", "o", "s", "t", ".">>,
      <<":", ":", "F", "o", "o", ":", ":", "B", "a", "r">>,
      <<"F", "o", "o", ":", ":", "B", "a", "r">>,
      <<":", ":", "F", "o", "o", ":", ":">>,
      <<":", ":", "F", "o", "o">>,
      <<" ", "p", "o", "s", "t", " ">> }
InitMatch ==
    /\ SymbolCacheFresh
    /\ prioCall = NoCall
    /\ pruneCall = NoCall
    /\ parseCall = NoCall
    /\ nameCall \in {[st |-> "called", name |-> n, term |-> t] :
                        n \in StringsUpTo(NameChars, MaxNameLen),
                        t \in StringsUpTo(TermChars, MaxTermLen)}
                     \cup {[st |-> "called", name |-> n, term |-> t] :
                              n \in ExampleNames, t \in ExampleTerms}
MatchesRubySymbol ==
    /\ nameCall.st = "called"
    /\ nameCall' = [st |-> "returned", name |-> nameCall.name, term |-> nameCall.term,
                    result |-> matchesRubySymbol(nameCall.name, nameCall.term)]
    /\ UNCHANGED <<symbolCacheVars, prioCall, pruneCall, parseCall>>
NextMatch == MatchesRubySymbol
SpecMatch == InitMatch /\ [][NextMatch]_vars

(***************************************************************************)
(* compareMatches: the comparator the picker sorts the matching names by,  *)
(* and the sort itself.                                                    *)
(***************************************************************************)
compareMatches_ShorterFirst(nameA, nameB, searchTerm) ==
    LET normalized == toLowerCase(trim(searchTerm))
        lowerA == toLowerCase(nameA)
        lowerB == toLowerCase(nameB)
        aIsExact == lowerA = normalized
        bIsExact == lowerB = normalized
        aStartsWith == startsWith(lowerA, normalized)
        bStartsWith == startsWith(lowerB, normalized)
        aIndex == indexOf(lowerA, normalized)
        bIndex == indexOf(lowerB, normalized)
        aHasSubstring == aIndex # -1
        bHasSubstring == bIndex # -1
    IN  IF aIsExact /\ ~bIsExact THEN -1
        ELSE IF bIsExact /\ ~aIsExact THEN 1
        ELSE IF aIsExact /\ bIsExact THEN 0
        ELSE IF aStartsWith /\ ~bStartsWith THEN -1
        ELSE IF bStartsWith /\ ~aStartsWith THEN 1
        ELSE IF aStartsWith /\ bStartsWith THEN Len(nameA) - Len(nameB)
        ELSE IF aHasSubstring /\ ~bHasSubstring THEN -1
        ELSE IF bHasSubstring /\ ~aHasSubstring THEN 1
        ELSE IF aHasSubstring /\ bHasSubstring
        THEN IF Len(nameA) # Len(nameB) THEN Len(nameA) - Len(nameB) ELSE aIndex - bIndex
        ELSE 0
compareMatches_IndexOnly(nameA, nameB, searchTerm) ==
    LET normalized == toLowerCase(trim(searchTerm))
        lowerA == toLowerCase(nameA)
        lowerB == toLowerCase(nameB)
        aIsExact == lowerA = normalized
        bIsExact == lowerB = normalized
        aStartsWith == startsWith(lowerA, normalized)
        bStartsWith == startsWith(lowerB, normalized)
        aIndex == indexOf(lowerA, normalized)
        bIndex == indexOf(lowerB, normalized)
        aHasSubstring == aIndex # -1
        bHasSubstring == bIndex # -1
    IN  IF aIsExact /\ ~bIsExact THEN -1
        ELSE IF bIsExact /\ ~aIsExact THEN 1
        ELSE IF aIsExact /\ bIsExact THEN 0
        ELSE IF aStartsWith /\ ~bStartsWith THEN -1
        ELSE IF bStartsWith /\ ~aStartsWith THEN 1
        ELSE IF aStartsWith /\ bStartsWith THEN Len(nameA) - Len(nameB)
        ELSE IF aHasSubstring /\ ~bHasSubstring THEN -1
        ELSE IF bHasSubstring /\ ~aHasSubstring THEN 1
        ELSE IF aHasSubstring /\ bHasSubstring
        THEN aIndex - bIndex
        ELSE 0
compareMatches(nameA, nameB, searchTerm) ==
    LET normalized == toLowerCase(trim(searchTerm))
        lowerA == toLowerCase(nameA)
        lowerB == toLowerCase(nameB)
        aIsExact == lowerA = normalized
        bIsExact == lowerB = normalized
        aStartsWith == startsWith(lowerA, normalized)
        bStartsWith == startsWith(lowerB, normalized)
        aIndex == indexOf(lowerA, normalized)
        bIndex == indexOf(lowerB, normalized)
        aHasSubstring == aIndex # -1
        bHasSubstring == bIndex # -1
    IN  IF aIsExact /\ ~bIsExact THEN -1
        ELSE IF bIsExact /\ ~aIsExact THEN 1
        ELSE IF aIsExact /\ bIsExact THEN 0
        ELSE IF aStartsWith /\ ~bStartsWith THEN -1
        ELSE IF bStartsWith /\ ~aStartsWith THEN 1
        ELSE IF aStartsWith /\ bStartsWith THEN Len(nameA) - Len(nameB)
        ELSE IF aHasSubstring /\ ~bHasSubstring THEN -1
        ELSE IF bHasSubstring /\ ~aHasSubstring THEN 1
        ELSE IF aHasSubstring /\ bHasSubstring
        THEN IF aIndex # bIndex THEN aIndex - bIndex ELSE Len(nameA) - Len(nameB)
        ELSE 0

\* Array.prototype.sort with compareMatches as comparator: a stable sort,
\* here by insertion
InsertionPoint(sorted, name, term) ==
    LET notAfter == {j \in 1..Len(sorted) : compareMatches(sorted[j], name, term) <= 0}
    IN  IF notAfter = {} THEN 0 ELSE CHOOSE j \in notAfter : \A k \in notAfter : k <= j
Insert(sorted, name, term) ==
    LET at == InsertionPoint(sorted, name, term)
    IN  SubSeq(sorted, 1, at) \o <<name>> \o SubSeq(sorted, at + 1, Len(sorted))
RECURSIVE sort(_, _)
sort(list, term) ==
    IF list = << >> THEN << >>
    ELSE Insert(sort(SubSeq(list, 1, Len(list) - 1), term), list[Len(list)], term)

(***************************************************************************)
(* Calls of compareMatches on names and terms drawn from bounded sets, and *)
(* sorts of short lists of the names of the tests.                         *)
(***************************************************************************)
MaxRankTermLen == 2     \* characters of a search term compared against
MaxSortLen == 3         \* names in a list to sort
RankChars == {"A", "a", "b"}
RankTermChars == {"A", "b", " "}
UserNames ==
    { <<"U", "s", "e", "r", ":", ":", "A", "d", "m", "i", "n">>,
      <<"U", "s", "e", "r", ":", ":", "A", "d", "m", "i", "n", "C", "o", "u", "n", "t">>,
      <<"S", "u", "p", "e", "r", "U", "s", "e", "r", ":", ":", "A", "d", "m", "i", "n">> }
AdminNames ==
    { <<"M", "A", "d", "m", "i", "n", "P", "o", "s", "t">>,
      <<"P", "o", "s", "t", "A", "d", "m", "i", "n">>,
      <<"Z", "A", "d", "m", "i", "n", "U", "s", "e", "r">>,
      <<"A", "d", "m", "i", "n", "X">>,
      <<"A", "d", "m", "i", "n", "X", "Y", "Z">> }
Admin == <<"A", "d", "m", "i", "n">>
UserAdmin == <<"U", "s", "e", "r", ":", ":", "A", "d", "m", "i", "n">>
PostScopes ==
    << <<"P", "o", "s", "t", ".", "p", "u", "b", "l", "i", "s", "h", "e", "d">>,
       <<"P", "o", "s", "t", ".", "d", "r", "a", "f", "t">>,
       <<"P", "o", "s", "t", ".", "a", "r", "c", "h", "i", "v", "e", "d">>,
       <<"P", "o", "s", "t", ".", "r", "e", "c", "e", "n", "t">>,
       <<"P", "o", "s", "t", ".", "f", "e", "a", "t", "u", "r", "e", "d">>,
       <<"P", "o", "s", "t", ".", "p", "e", "n", "d", "i", "n", "g">>,
       <<"P", "o", "s", "t", ".", "a", "c", "t", "i", "v", "e">> >>
PostDot == <<"P", "o", "s", "t", ".">>
InitRank ==
    /\ SymbolCacheFresh
    /\ prioCall = NoCall
    /\ pruneCall = NoCall
    /\ parseCall = NoCall
    /\ nameCall \in
          {[st |-> "compare", a |-> a, b |-> b, term |-> t] :
              a \in StringsUpTo(RankChars, MaxNameLen),
              b \in StringsUpTo(RankChars, MaxNameLen),
              t \in StringsUpTo(RankTermChars, MaxRankTermLen)}
          \cup {[st |-> "compare", a |-> a, b |-> b, term |-> t] :
                  a \in ExampleNames \cup UserNames \cup AdminNames,
                  b \in ExampleNames \cup UserNames \cup AdminNames,
                  t \in ExampleTerms \cup {UserAdmin, Admin}}
          \cup {[st |-> "compare", a |-> PostScopes[i], b |-> PostScopes[j], term |-> PostDot] :
                  i \in DOMAIN PostScopes, j \in DOMAIN PostScopes}
          \cup {[st |-> "sort", list |-> l, term |-> UserAdmin] :
                  l \in UNION {[1..n -> UserNames] : n \in 0..MaxSortLen}}
          \cup {[st |-> "sort", list |-> PostScopes, term |-> PostDot]}
CompareMatches ==
    /\ nameCall.st = "compare"
    /\ nameCall' = [st |-> "compared", a |-> nameCall.a, b |-> nameCall.b,
                    term |-> nameCall.term,
                    result |-> compareMatches(nameCall.a, nameCall.b, nameCall.term)]
    /\ UNCHANGED <<symbolCacheVars, prioCall, pruneCall, parseCall>>
SortMatches ==
    /\ nameCall.st = "sort"
    /\ nameCall' = [st |-> "sorted", list |-> nameCall.list, term |-> nameCall.term,
                    result |-> sort(nameCall.list, nameCall.term)]
    /\ UNCHANGED <<symbolCacheVars, prioCall, pruneCall, parseCall>>
NextRank == CompareMatches \/ SortMatches
SpecRank == InitRank /\ [][NextRank]_vars

(***************************************************************************)
(* isClassOrModule: the filter of the picker for an empty search term.     *)
(***************************************************************************)
\* parts[parts.length - 1] of symbolName.split('::')
RECURSIVE LastPart(_)
LastPart(s) ==
    IF indexOf(s, <<":", ":">>) = -1 THEN s
    ELSE LastPart(sliceFrom(s, indexOf(s, <<":", ":">>) + 2))
\* /[A-Z]/.test(s)
HasUpperCaseLetter(s) == \E i \in 1..Len(s) : \E k \in 1..26 : s[i] = UpperCase[k]
isClassOrModule_NoLetterTest(symbolName) ==
    IF includes(symbolName, <<".">>) THEN FALSE
    ELSE LET lastPart == LastPart(symbolName)
         IN  IF lastPart = toUpperCase(lastPart) /\ Len(lastPart) > 0
             THEN FALSE
             ELSE TRUE
isClassOrModule(symbolName) ==
    IF includes(symbolName, <<".">>) THEN FALSE
    ELSE LET lastPart == LastPart(symbolName)
         IN  IF lastPart = toUpperCase(lastPart) /\ Len(lastPart) > 0
                /\ HasUpperCaseLetter(lastPart)
             THEN FALSE
             ELSE TRUE

(***************************************************************************)
(* Calls of isClassOrModule on names drawn from a bounded set and on the   *)
(* names of the tests.                                                     *)
(***************************************************************************)
ClassChars == {"A", "a", ":", ".", "#"}
InitClassify ==
    /\ SymbolCacheFresh
    /\ prioCall = NoCall
    /\ pruneCall = NoCall
    /\ parseCall = NoCall
    /\ nameCall \in {[st |-> "classify", name |-> n] :
                        n \in StringsUpTo(ClassChars, MaxNameLen) \cup ExampleNames
                              \cup {PostScopes[i] : i \in DOMAIN PostScopes}}
IsClassOrModule ==
    /\ nameCall.st = "classify"
    /\ nameCall' = [st |-> "classified", name |-> nameCall.name,
                    result |-> isClassOrModule(nameCall.name)]
    /\ UNCHANGED <<symbolCacheVars, prioCall, pruneCall, parseCall>>
NextClassify == IsClassOrModule
SpecClassify == InitClassify /\ [][NextClassify]_vars

(***************************************************************************)
(* The picker: updateItems filters the symbols of the index by the value   *)
(* typed, keeps classes and modules only when the value is empty, and      *)
(* sorts what is left by match quality.                                    *)
(***************************************************************************)
\* the characters of a name of the parser, which is a sequence of tokens
Characters(token) ==
    CASE token = "Foo" -> <<"F", "o", "o">>
      [] token = "Bar" -> <<"B", "a", "r">>
      [] token = "Par" -> <<"P", "a", "r">>
      [] token = "Zed" -> <<"Z", "e", "d">>
      [] token = "run" -> <<"r", "u", "n">>
      [] token = "make" -> <<"m", "a", "k", "e">>
      [] token = "recent" -> <<"r", "e", "c", "e", "n", "t">>
      [] token = "MAX" -> <<"M", "A", "X">>
      [] token = "API" -> <<"A", "P", "I">>
      [] token = "HTTP" -> <<"H", "T", "T", "P">>
      [] token = "::" -> <<":", ":">>
      [] OTHER -> <<token>>
RECURSIVE Spell(_)
Spell(name) == IF name = << >> THEN << >> ELSE Characters(Head(name)) \o Spell(Tail(name))
filtered(allSymbols, value) ==
    LET matching == SelectSeq(allSymbols, LAMBDA name : matchesRubySymbol(name, value))
        shown == IF Len(trim(value)) = 0
                 THEN SelectSeq(matching, LAMBDA name : isClassOrModule(name))
                 ELSE matching
    IN  sort(shown, value)
\* what the user has typed into the picker
PickerValues == {<< >>, <<" ">>, <<"F", "o", "o">>}
\* the filter and sort of updateItems, on the symbols of the text parsed
UpdateItems ==
    /\ parseCall.st = "once"
    /\ nameCall = NoCall
    /\ \E value \in PickerValues :
          LET allSymbols == [i \in 1..Len(parseCall.first) |-> Spell(parseCall.first[i].name)]
          IN  nameCall' = [st |-> "shown", value |-> value,
                           items |-> filtered(allSymbols, value)]
    /\ UNCHANGED <<symbolCacheVars, prioCall, pruneCall, parseCall>>
NextPicker == ParseText \/ UpdateItems
SpecPicker == InitMembers /\ [][NextPicker]_vars

\* the picker over texts that declare classes and modules with names in
\* capitals, which declRegex ([A-Z][A-Za-z0-9]*) matches like any other
AcronymLines ==
    { RubyLine(0, "decl", "class", <<"Foo">>, ""),
      RubyLine(0, "decl", "class", <<"API">>, ""),
      RubyLine(2, "decl", "module", <<"HTTP">>, ""),
      RubyLine(0, "decl", "class", <<"A">>, ""),
      RubyLine(0, "decl", "class", <<"Foo", "::", "API">>, ""),
      RubyLine(0, "end", "end", << >>, "") }
InitAcronyms ==
    /\ SymbolCacheFresh
    /\ prioCall = NoCall
    /\ pruneCall = NoCall
    /\ parseCall \in ParseCallOn(TextsOf(AcronymLines))
    /\ nameCall = NoCall
SpecAcronyms == InitAcronyms /\ [][NextPicker]_vars

(***************************************************************************)
(* The SymbolCache in an environment with faults: it is constructed over a *)
(* corrupt cache file (one that is not JSON, or one with fresh entries for *)
(* all files of which the entry of file 2 is misshapen), and the reads of  *)
(* the file system can fail.                                               *)
(***************************************************************************)
CorruptCacheFiles ==
    { [NoCacheFile EXCEPT !.exists = TRUE, !.malformed = TRUE],
      [EarlierSession({}) EXCEPT !.misshapen = {2}] }

InitFaults ==
    /\ fsExists = [f \in Files |-> TRUE]
    /\ fsMtime = [f \in Files |-> 1]
    /\ cacheFile \in CorruptCacheFiles
    /\ fsFaulty = TRUE
    /\ outside = {}
    /\ SymbolCacheConstructed
    /\ prioCall = NoCall
    /\ pruneCall = NoCall
    /\ parseCall = NoCall
    /\ nameCall = NoCall

SpecFaults == InitFaults /\ [][Next]_vars

\* The cache file in the global storage directory was written when file 2
\* was indexed (by a session of the workspace that holds it, or before its
\* directory was added to rubynavigate.excludeDirectories); the file is
\* unchanged since, and it is not of the live file set of this session
InitWorkspaces ==
    /\ fsExists = [f \in Files |-> TRUE]
    /\ fsMtime = [f \in Files |-> 1]
    /\ cacheFile = EarlierSession({})
    /\ fsFaulty = FALSE
    /\ outside = {2}
    /\ SymbolCacheConstructed
    /\ prioCall = NoCall
    /\ pruneCall = NoCall
    /\ parseCall = NoCall
    /\ nameCall = NoCall

SpecWorkspaces == InitWorkspaces /\ [][Next]_vars

\* the SymbolCache on a fresh installation: every file exists, no cache file
InitFresh ==
    /\ SymbolCacheFresh
    /\ prioCall = NoCall
    /\ pruneCall = NoCall
    /\ parseCall = NoCall
    /\ nameCall = NoCall

\* with a file discovery that can fail (a workspace folder that cannot be
\* read)
NextFailures ==
    \/ Next
    \/ \E p \in PassIds : FindFilesFails(p) /\ PassHist(p)

SpecFailures == InitFresh /\ [][NextFailures]_vars

\* the SymbolCache with dispose() called at any moment
NextDispose ==
    \/ Next
    \/ Dispose /\ OtherHist

SpecDispose == InitFresh /\ [][NextDispose]_vars


(***************************************************************************)
(* Properties.                                                             *)
(***************************************************************************)
PassInFlight(p) == passes[p].pc # "idle"
\* performIndexing of pass p has been called and has not returned
Indexing(p) == passes[p].pc \in {"finding", "ready", "batch"}

\* in how many runs in flight file f still waits for its invalidateFile call
RECURSIVE WaitingIn(_, _)
WaitingIn(f, b) ==
    IF b > MaxBatches THEN 0
    ELSE (IF batches[b].pc = "run"
          THEN Occurrences(f, batches[b].files,
                           Covered(batches[b], batches[b].files), Len(batches[b].files))
          ELSE 0) + WaitingIn(f, b + 1)

\* C1: create/change events that follow each other within the debounce
\* window are coalesced.  While the events of a burst are not yet taken up,
\* the file is in the pending set and the debounce timer is armed with
\* exactly the part of the window that is left since the last event, so the
\* timer cannot fire before the window has elapsed after the last event;
\* and every burst closed by the timer leads to exactly one invalidateFile
\* call for the file: the calls made so far are the bursts closed so far
\* minus the files that still wait in the file list of a run in flight.
C1_DebounceCoalesces ==
    \A f \in Files :
        /\ (burst[f] > 0 /\ ~disposed) =>
              /\ \E k \in 1..Len(pendingFileChanges) : pendingFileChanges[k] = f
              /\ debounceTimer >= 0
              /\ debounceTimer + sinceEvent = DebounceTicks
        /\ owed[f] = WaitingIn(f, 1)

\* C1 witness: a burst of two events for a file has been closed and its
\* single re-parse is under way
C1_Witness ==
    \E f \in Files, b \in BatchIds :
        /\ lastBurst[f] >= 2
        /\ owed[f] = 0
        /\ batches[b].pc = "run"
        /\ batches[b].tasks[f].st = "read"
        /\ batches[b].tasks[f].text = fsMtime[f]

\* C2: cache freshness.  When a pass starts a batch, the extractor is
\* invoked for a file of the batch that can be stat-ed if and only if the
\* mtime table holds no entry for it that equals its current mtime; and
\* when rebuildIndex() loads the disk cache, an entry whose stored mtime
\* equals the current mtime of its file is taken into the table, while any
\* other entry of the file is not trusted: it changes nothing in the table.
C2_ExtractIffNotFresh ==
    [][\A p \in PassIds :
        /\ (passes[p].pc = "ready" /\ passes[p].i < Len(passes[p].files)
               /\ passes'[p] # passes[p]) =>
              \A f \in Slice(passes[p].files, passes[p].i, batchSize) :
                  fsExists[f] =>
                     ((passes'[p].tasks[f].st = "reading")
                        <=> ~(f \in DOMAIN fileModTimes /\ fileModTimes[f] = fsMtime[f]))
        /\ (passes[p].pc = "idle" /\ passes'[p].pc = "loading") =>
              \A f \in Files :
                  IF /\ cacheFile.exists /\ f \in DOMAIN cacheFile.data
                     /\ fsExists[f] /\ cacheFile.data[f].mtime = fsMtime[f]
                  THEN /\ f \in DOMAIN cache' /\ f \in DOMAIN fileModTimes'
                       /\ fileModTimes'[f] = fsMtime[f]
                       /\ \A k \in DOMAIN cache'[f] :
                             cache'[f][k].name = cacheFile.data[f].symbols[k].name
                  ELSE /\ (f \in DOMAIN cache') = (f \in DOMAIN cache)
                       /\ f \in DOMAIN cache => cache'[f] = cache[f]
                       /\ (f \in DOMAIN fileModTimes') = (f \in DOMAIN fileModTimes)
                       /\ f \in DOMAIN fileModTimes => fileModTimes'[f] = fileModTimes[f]
      ]_vars

\* C2 witness: a pass that follows the loading of the disk cache has
\* skipped file 1, whose entry was loaded (its symbols carry no isPrivate),
\* and has invoked the extractor for file 2, whose entry was stale
C2_Witness ==
    \E p \in PassIds :
        /\ passes[p].pc = "batch"
        /\ passes[p].tasks[1].st = "none"
        /\ passes[p].tasks[2].st = "reading"
        /\ 1 \in DOMAIN cache /\ 1 \in DOMAIN fileModTimes
        /\ fileModTimes[1] = fsMtime[1]
        /\ "isPrivate" \notin DOMAIN cache[1][1]
        /\ 2 \notin DOMAIN cache
        /\ cacheFile.exists /\ 2 \in DOMAIN cacheFile.data
        /\ cacheFile.data[2].mtime # fsMtime[2]

\* C3: an ensureIndexed() call made while a rebuildIndex() or
\* clearAndRebuildIndex() call is in flight joins it: it returns the
\* in-flight promise, so it neither starts a second pass nor resolves at
\* once.
C3_EnsureJoinsInFlight ==
    lastEnsure.busy => lastEnsure.outcome = "join"

\* C4: at most one performIndexing pass is in flight.
C4_OnePassAtATime ==
    Cardinality({p \in PassIds : Indexing(p)}) <= 1

\* a batch of a full-index pass, or a processPendingFileChanges run, is in
\* flight
BatchInFlight ==
    \/ \E p \in PassIds : Indexing(p)
    \/ \E b \in BatchIds : batches[b].pc # "idle"

C6_EnsureIffNeverIndexed ==
    (lastEnsure.outcome # "none" /\ ~lastEnsure.busy) =>
        ((lastEnsure.outcome = "start") <=> ~lastEnsure.indexed)

LiveFiles == {f \in Files : fsExists[f]}

\* C7: a clearAndRebuildIndex() call that runs on its own, from a state in
\* which nothing is in flight to its end with no other operation in
\* between, first leaves both tables empty and the cache file deleted,
\* then invokes the extractor for every live file, whatever was cached
\* before; at its end the tables hold exactly the files parsed in this
\* pass, with their current content and mtime, and the cache file holds
\* exactly the entries of the table.
C7_ClearAndRebuildAlone ==
    solo.st # "none" =>
        LET p == solo.pass
        IN  /\ (solo.st = "run" /\ passes[p].pc = "finding") =>
                  /\ cache = EmptyMap /\ fileModTimes = EmptyMap
                  /\ ~cacheFile.exists
            /\ (solo.st = "run" /\ passes[p].pc = "batch") =>
                  solo.invoked = LiveFiles
            /\ solo.st = "done" =>
                  /\ solo.invoked = LiveFiles
                  /\ DOMAIN cache = solo.parsed
                  /\ DOMAIN fileModTimes = solo.parsed
                  /\ \A f \in solo.parsed :
                        /\ cache[f] = extractSymbolsFromDocument(f, fsMtime[f])
                        /\ fileModTimes[f] = fsMtime[f]
                  /\ cacheFile.exists
                  /\ DOMAIN cacheFile.data = solo.parsed
                  /\ \A f \in solo.parsed :
                        cacheFile.data[f] = CachedFileEntry(cache[f], fileModTimes[f])

\* C7 witness: such a call has ended; files that were cached before it
\* were extracted again, and every file was parsed
C7_Witness ==
    /\ solo.st = "done"
    /\ solo.before # {}
    /\ solo.before \subseteq solo.invoked
    /\ solo.parsed = Files

EntryUnchanged(g) ==
    /\ (g \in DOMAIN cache') = (g \in DOMAIN cache)
    /\ g \in DOMAIN cache => cache'[g] = cache[g]
    /\ (g \in DOMAIN fileModTimes') = (g \in DOMAIN fileModTimes)
    /\ g \in DOMAIN fileModTimes => fileModTimes'[g] = fileModTimes[g]
EntryAbsent(g) == g \notin DOMAIN cache' /\ g \notin DOMAIN fileModTimes'
\* the files for which run b calls invalidateFile in this step and whose
\* statSync fails
StatFailed(files, lo, hi) == {files[k] : k \in (lo + 1)..hi} \ LiveFiles

\* C8: when invalidateFile(path) ends, the entry of path holds the symbols
\* of the content that was read together with the mtime that statSync
\* returned, or, when statSync or the read failed, path is absent from
\* both tables; the entries of the other paths are as before (but for the
\* paths whose own invalidateFile call fails in the same step).
C8_InvalidateFileReplaces ==
    [][\A b \in BatchIds :
        /\ \A f \in Files :
            (/\ batches[b].pc = "run"
             /\ batches[b].tasks[f].st \in {"read", "failed"}
             /\ batches'[b].tasks[f].st \notin {"read", "failed"}) =>
                LET t == batches[b].tasks[f]
                    files == batches[b].files
                    failed == StatFailed(files, Covered(batches[b], files),
                                         Covered(batches'[b], files))
                IN  /\ t.st = "read" =>
                          /\ f \in DOMAIN cache' /\ f \in DOMAIN fileModTimes'
                          /\ cache'[f] = extractSymbolsFromDocument(f, t.text)
                          /\ fileModTimes'[f] = t.mtime
                    /\ t.st = "failed" => EntryAbsent(f)
                    /\ \A g \in failed : EntryAbsent(g)
                    /\ \A g \in Files \ (failed \cup {f}) : EntryUnchanged(g)
        /\ (/\ batches[b].pc = "idle" /\ batches'[b].pc # "idle"
            /\ disposed' = disposed) =>
                LET failed == StatFailed(pendingFileChanges, 0,
                                         Covered(batches'[b], pendingFileChanges))
                IN  /\ \A g \in failed : EntryAbsent(g)
                    /\ \A g \in Files \ failed : EntryUnchanged(g)
      ]_vars

\* C8 witness: no full index ever ran; a run has re-parsed a changed file
\* and waits for the disk save, and the table holds the new content of the
\* file with its new mtime
C8_Witness ==
    /\ ~fullIndexDone /\ \A p \in PassIds : ~PassInFlight(p)
    /\ \E b \in BatchIds : batches[b].pc = "saving"
    /\ \E f \in Files :
          /\ f \in DOMAIN cache /\ f \in DOMAIN fileModTimes
          /\ fsMtime[f] > 1
          /\ fileModTimes[f] = fsMtime[f]
          /\ cache[f] = extractSymbolsFromDocument(f, fsMtime[f])

\* C9: once a file has been deleted (delete event delivered, no create or
\* change event after it) and no parse is in flight any more, the table has
\* no entry for the file.
C9_DeletedStaysDeleted ==
    \A f \in Files :
        (/\ ~fsExists[f] /\ fsMtime[f] >= 1
         /\ \A p \in PassIds : ~PassInFlight(p)
         /\ \A b \in BatchIds : batches[b].pc # "run"
         /\ debounceTimer = -1) =>
            f \notin DOMAIN cache

\* C10, for the case it names (one pass in flight, the write not made by
\* dispose()): while a full index pass is in flight the cache file is
\* written only by the last step of that pass.
C10_NoWriteDuringPass ==
    [][(/\ cacheFile' # cacheFile /\ cacheFile'.exists
        /\ disposed' = disposed
        /\ Cardinality({p \in PassIds : PassInFlight(p)}) = 1) =>
           \E p \in PassIds : PassInFlight(p) /\ passes'[p].pc = "idle"
      ]_vars

\* the extraction of f in pass p ends in this step after more than the
\* per-file timeout: the timer of withTimeout has won the race, or the
\* synchronous parse was over only after the timeout
ExceededTimeout(p, f) ==
    /\ passes[p].pc = "batch"
    /\ passes[p].tasks[f].st \in {"reading", "read"}
    /\ passes'[p].tasks[f].st = "none"
    /\ overran' = f

\* C11: when the extraction of a file exceeds the per-file timeout during
\* a pass, the file is skipped: the step that ends its parseFileIfNeeded
\* call leaves its symbol entry and its recorded mtime as they were, a
\* warning is surfaced for it, the other extractions of the batch stay
\* pending, and after the last one the loop goes on behind the batch.
C11_TimeoutSkipsFile ==
    [][\A p \in PassIds, f \in Files :
        ExceededTimeout(p, f) =>
            /\ EntryUnchanged(f)
            /\ warning' = f
            /\ \A g \in Files \ {f} : passes'[p].tasks[g] = passes[p].tasks[g]
            /\ \/ passes'[p].pc = "batch"
               \/ /\ passes'[p].pc = "ready"
                  /\ passes'[p].i = passes[p].i + batchSize
      ]_vars

\* position of the first directory of dirs that the path of f contains;
\* Len(dirs) + 1 when it contains none
FirstMatch(dirs, f) ==
    IF \E d \in 1..Len(dirs) : includesDir(FilePath(f), dirs[d])
    THEN CHOOSE d \in 1..Len(dirs) :
            /\ includesDir(FilePath(f), dirs[d])
            /\ \A e \in 1..(d - 1) : ~includesDir(FilePath(f), dirs[e])
    ELSE Len(dirs) + 1
IndexOf(l, f) == CHOOSE k \in 1..Len(l) : l[k] = f

\* C12: prioritizeFiles returns a permutation of its input; in it the files
\* are ordered by the position of the first configured directory that
\* their path contains, the files that contain none coming last, and files
\* of the same position keep their input order; with an empty setting the
\* input is returned as it is.
C12_PrioritizeStablePermutation ==
    prioCall.st = "returned" =>
        LET in == prioCall.files
            out == prioCall.result
            dirs == prioCall.dirs
        IN  /\ Len(out) = Len(in)
            /\ {out[k] : k \in 1..Len(out)} = {in[k] : k \in 1..Len(in)}
            /\ \A i, j \in 1..Len(out) : out[i] = out[j] => i = j
            /\ \A i, j \in 1..Len(out) :
                  i < j =>
                     /\ FirstMatch(dirs, out[i]) <= FirstMatch(dirs, out[j])
                     /\ FirstMatch(dirs, out[i]) = FirstMatch(dirs, out[j]) =>
                           IndexOf(in, out[i]) < IndexOf(in, out[j])
            /\ dirs = << >> => out = in

\* C12 witness: a call whose result differs from its input, with two files
\* of the same position in their input order, one of a later position
\* behind them and a file outside every priority directory last
C12_Witness ==
    /\ prioCall.st = "returned"
    /\ prioCall.result # prioCall.files
    /\ Len(prioCall.result) = 3
    /\ \E i, j \in 1..Len(prioCall.result) :
          /\ i < j
          /\ FirstMatch(prioCall.dirs, prioCall.result[i])
                = FirstMatch(prioCall.dirs, prioCall.result[j])
          /\ FirstMatch(prioCall.dirs, prioCall.result[i]) <= Len(prioCall.dirs)
    /\ FirstMatch(prioCall.dirs, prioCall.result[3]) = Len(prioCall.dirs) + 1

\* C13: for cache data whose serialised size exceeds the cap, pruneIfNeeded
\* returns a subset of the entries whose serialised size is at most 90% of
\* the cap, and no removed entry has an mtime newer than that of a kept
\* entry; cache data that does not exceed the cap is returned unchanged.
C13_PruneKeepsNewest ==
    pruneCall.st = "returned" =>
        LET in == pruneCall.cacheData
            out == pruneCall.result
            cap == pruneCall.maxSizeBytes
        IN  IF JsonByteLength(in) > cap
            THEN /\ DOMAIN out \subseteq DOMAIN in
                 /\ \A f \in DOMAIN out : out[f] = in[f]
                 /\ JsonByteLength(out) * 10 <= cap * 9
                 /\ \A r \in (DOMAIN in) \ (DOMAIN out), k \in DOMAIN out :
                       in[r].mtime <= in[k].mtime
            ELSE out = in

\* C13 witness: cache data over the cap of which pruneIfNeeded has kept an
\* entry and removed an older one that would have fitted on its own
C13_Witness ==
    /\ pruneCall.st = "returned"
    /\ JsonByteLength(pruneCall.cacheData) > pruneCall.maxSizeBytes
    /\ DOMAIN pruneCall.result # {}
    /\ \E r \in (DOMAIN pruneCall.cacheData) \ (DOMAIN pruneCall.result) :
          /\ \A k \in DOMAIN pruneCall.result :
                pruneCall.cacheData[r].mtime < pruneCall.cacheData[k].mtime
          /\ JsonByteLength([f \in {r} |-> pruneCall.cacheData[f]]) * 10
                <= pruneCall.maxSizeBytes * 9

\* C14: when rebuildIndex() loads a corrupt cache file (not JSON, or with
\* a value that lacks the shape of a cache entry), the load is abandoned
\* as a whole: no entry of the file is taken into the table, so that the
\* pass that follows finds no file of the cache file fresh.
C14_CorruptLoadAbandoned ==
    [][\A p \in PassIds :
        (/\ passes[p].pc = "idle" /\ passes'[p].pc = "loading"
         /\ cacheFile.exists
         /\ (cacheFile.malformed \/ cacheFile.misshapen # {})) =>
            /\ cache' = cache
            /\ fileModTimes' = fileModTimes
      ]_vars

\* C15: when stat-ing or reading a file fails while it is processed, in a
\* pass as well as in a processPendingFileChanges run, the table has no
\* entry for the file once its processing has ended (an entry that was
\* there is removed), and the other files of the batch remain in process.
C15_IoFailureRemovesEntry ==
    [][/\ \A p \in PassIds, f \in Files :
            /\ (/\ passes[p].pc = "batch"
                /\ passes[p].tasks[f].st = "failed"
                /\ passes'[p].tasks[f].st = "none") =>
                   /\ EntryAbsent(f)
                   /\ \A g \in Files \ {f} : passes'[p].tasks[g] = passes[p].tasks[g]
            /\ (/\ passes[p].pc = "ready" /\ passes'[p] # passes[p]
                /\ f \in Slice(passes[p].files, passes[p].i, batchSize)
                /\ ~fsExists[f]) =>
                   EntryAbsent(f)
       /\ \A b \in BatchIds, f \in Files :
            (/\ batches[b].pc = "run"
             /\ batches[b].tasks[f].st = "failed"
             /\ batches'[b].tasks[f].st = "none") =>
                EntryAbsent(f)
      ]_vars


RECURSIVE TextLength(_, _)
TextLength(text, n) ==
    IF n = 0 THEN 0
    ELSE TextLength(text, n - 1) + LineLength(text.lines[n])
         + (IF n < Len(text.lines) THEN EolLength(text.eols[n]) ELSE 0)
\* the offset in the text at which line i starts
LineStart(text, i) == TextLength(text, i - 1)
\* the string of name occurs in text[from : to].  The tokens of a name
\* (identifiers, `::`, `#`) occur in a text only in the name that a line
\* declares
NameOccursIn(text, name, from, to) ==
    \E i \in 1..Len(text.lines) :
        LET line == text.lines[i]
        IN  \E k \in 0..(Len(line.raw) - Len(name)) :
                LET at == LineStart(text, i) + NameColumn(line)
                          + StrLength(SubSeq(line.raw, 1, k))
                IN  /\ SubSeq(line.raw, k + 1, k + Len(name)) = name
                    /\ from <= at
                    /\ at + StrLength(name) <= to
C17_SpanInsideText ==
    parseCall.st # "called" =>
        \A k \in 1..Len(parseCall.first) :
            LET r == parseCall.first[k]
            IN  /\ 0 <= r.index
                /\ r.index + r.length <= TextLength(parseCall.text, Len(parseCall.text.lines))
                /\ NameOccursIn(parseCall.text, r.name, r.index, r.index + r.length)


(***************************************************************************)
(* The block structure of a text as Ruby reads it: the lines that opened a *)
(* block (a declaration or a method without its `end` on the line, a       *)
(* `class << self`, an `if`, a `do` without its `end` on the line) which   *)
(* is still open in front of line i, outermost first.                      *)
(***************************************************************************)
Opens(line) ==
    \/ line.kind \in {"decl", "def", "selfdef", "recvdef"} /\ ~EndOnSameLine(line)
    \/ line.kind \in {"shovel", "block"}
    \/ line.kind \in {"scope", "call"} /\ DoOnLine(line) /\ ~EndOnSameLine(line)
\* the line gets a record
Produces(line) == line.kind \in {"decl", "const", "scope", "def", "selfdef", "recvdef"}
RECURSIVE OpenBefore(_, _)
OpenBefore(text, i) ==
    IF i = 1 THEN << >>
    ELSE LET open == OpenBefore(text, i - 1)
             line == text.lines[i - 1]
         IN  IF line.kind = "end"
             THEN IF open = << >> THEN open ELSE SubSeq(open, 1, Len(open) - 1)
             ELSE IF Opens(line)
             THEN Append(open, i - 1)
             ELSE open
\* line i declares a class or module, with a qualified name or not
Declares(text, i) == text.lines[i].kind = "decl"
Qualified(text, i) == Declares(text, i) /\ Len(text.lines[i].raw) > 1
Unqualified(text, i) == Declares(text, i) /\ Len(text.lines[i].raw) = 1
\* the record that the first call returned for line i, and its name
RecordOf(i) ==
    parseCall.first[Cardinality({j \in 1..i : Produces(parseCall.text.lines[j])})]
RecordName(i) == RecordOf(i).name
\* the lines that the claims below are about
DeclLinesOf(text) == {i \in 1..Len(text.lines) : Declares(text, i)}

(***************************************************************************)
(* C18: an unqualified class/module declaration X directly inside one open *)
(* unqualified module/class M is recorded as M::X, and so is every         *)
(* sibling: after a nested declaration is closed by its `end`, the next    *)
(* unqualified declaration Y inside M is recorded as M::Y.                 *)
(***************************************************************************)
DirectlyInsideOne(text, i) ==
    /\ Unqualified(text, i)
    /\ Len(OpenBefore(text, i)) = 1
    /\ Unqualified(text, OpenBefore(text, i)[1])
C18_SiblingsUnderModule ==
    parseCall.st # "called" =>
        \A i \in DeclLinesOf(parseCall.text) :
            DirectlyInsideOne(parseCall.text, i) =>
                RecordName(i) = parseCall.text.lines[OpenBefore(parseCall.text, i)[1]].raw
                                \o <<"::">> \o parseCall.text.lines[i].raw
\* module Foo / class Bar / end / class Baz: Foo, Foo::Bar, Foo::Baz
C18_Witness ==
    /\ parseCall.st # "called"
    /\ Len(parseCall.text.lines) = 4
    /\ parseCall.text.lines[3].kind = "end"
    /\ DirectlyInsideOne(parseCall.text, 2)
    /\ DirectlyInsideOne(parseCall.text, 4)
    /\ ~EndOnSameLine(parseCall.text.lines[2])
    /\ [k \in 1..3 |-> parseCall.first[k].name]
         = << <<"Foo">>, <<"Foo", "::", "Bar">>, <<"Foo", "::", "Baz">> >>

(***************************************************************************)
(* C19: an unqualified class/module declaration nested to any depth is     *)
(* recorded under its fully qualified name: the declared names of the      *)
(* enclosing declarations, outermost first (from the nearest qualified one *)
(* on, if there is one), then its own name, joined with `::`, each name    *)
(* once.                                                                   *)
(***************************************************************************)
\* the declared names of the declarations that enclose line i
EnclosingNames(text, i) ==
    LET open == OpenBefore(text, i)
        absolutes == {k \in 1..Len(open) : Qualified(text, open[k])}
        from == IF absolutes = {} THEN 1
                ELSE CHOOSE k \in absolutes : \A j \in absolutes : j <= k
    IN  [k \in 1..(Len(open) - from + 1) |-> text.lines[open[from + k - 1]].raw]
NestedInDeclarations(text, i) ==
    /\ Unqualified(text, i)
    /\ \A k \in 1..Len(OpenBefore(text, i)) : Declares(text, OpenBefore(text, i)[k])
C19_NestedNameQualified ==
    parseCall.st # "called" =>
        \A i \in DeclLinesOf(parseCall.text) :
            NestedInDeclarations(parseCall.text, i) =>
                RecordName(i) = JoinNames(Append(EnclosingNames(parseCall.text, i),
                                                 parseCall.text.lines[i].raw))

(***************************************************************************)
(* C20: a `::`-qualified class/module declaration is recorded under        *)
(* exactly the name as written, whatever frames are open around it, and an *)
(* unqualified declaration X directly inside a qualified declaration Q is  *)
(* recorded as Q::X, also when Q itself is written inside another open     *)
(* module or class.                                                        *)
(***************************************************************************)
DirectlyInsideQualified(text, i) ==
    /\ Unqualified(text, i)
    /\ OpenBefore(text, i) # << >>
    /\ Qualified(text, OpenBefore(text, i)[Len(OpenBefore(text, i))])
RubySymbolOf(entry) ==
    IF "isPrivate" \in DOMAIN entry
    THEN [name |-> entry.name, isPrivate |-> entry.isPrivate]
    ELSE [name |-> entry.name]
\* symbol.isPrivate is truthy
IsPrivate(symbol) == "isPrivate" \in DOMAIN symbol /\ symbol.isPrivate

(***************************************************************************)
(* C21: a method declared after a bare `private` line in the same class or *)
(* module scope is recorded Private; a method declared before the marker,  *)
(* or in a sibling or an enclosing class, is recorded Public; the symbol   *)
(* that the index serves carries that visibility as isPrivate.             *)
(***************************************************************************)
PrivateMarker(line) == line.kind = "plain" /\ line.tail = "private"
\* line i stands directly in a class or module, behind a `private` line of
\* that same scope
PrivateBefore(text, i) ==
    LET open == OpenBefore(text, i)
    IN  /\ open # << >>
        /\ Declares(text, open[Len(open)])
        /\ \E j \in 1..(i - 1) : /\ PrivateMarker(text.lines[j])
                                 /\ OpenBefore(text, j) = open
C21_PrivateAfterMarker ==
    parseCall.st # "called" =>
        \A i \in 1..Len(parseCall.text.lines) :
            parseCall.text.lines[i].kind = "def" =>
                (IsPrivate(RubySymbolOf(RecordOf(i))) <=> PrivateBefore(parseCall.text, i))


(***************************************************************************)
(* C22: a constant, a `scope :name`, a `def self.m` and a `def m` line are *)
(* named after the full name of the nearest enclosing class or module,     *)
(* anonymous frames (method bodies, do blocks, `class << self`) skipped,   *)
(* joined with `::`, `.`, `.` and `#`; they get the bare name when no      *)
(* class or module is open.  A `def Receiver.m` line is named Receiver.m   *)
(* as written, whatever encloses it.                                       *)
(***************************************************************************)
Separator(line) ==
    IF line.kind = "const" THEN "::" ELSE IF line.kind = "def" THEN "#" ELSE "."
\* the class and module frames on the stack when the call reaches line i
ClassFramesBefore(text, i) ==
    SelectSeq(LocalsBefore(text, i).stack, LAMBDA fr : fr.type \in {"class", "module"})
MemberLinesOf(text) ==
    {i \in 1..Len(text.lines) : text.lines[i].kind \in {"const", "scope", "selfdef", "def"}}
C22_MemberNamedAfterNamespace ==
    parseCall.st # "called" =>
        \A i \in 1..Len(parseCall.text.lines) :
            LET text == parseCall.text
                line == text.lines[i]
                frames == ClassFramesBefore(text, i)
            IN  /\ i \in MemberLinesOf(text) =>
                       RecordName(i) = IF frames = << >> THEN line.raw
                                       ELSE frames[Len(frames)].name
                                            \o <<Separator(line)>> \o line.raw
                /\ line.kind = "recvdef" => RecordName(i) = line.raw
\* class Foo / def run / MAX = 1 / def Zed.make: the constant stands in a
\* method body and is named Foo::MAX
C22_Witness ==
    /\ parseCall.st # "called"
    /\ Len(parseCall.text.lines) = 4
    /\ parseCall.text.lines[3].kind = "const"
    /\ OpenBefore(parseCall.text, 3) = <<1, 2>>
    /\ Len(parseCall.first) = 4
    /\ [k \in 1..4 |-> parseCall.first[k].name]
         = << <<"Foo">>, <<"Foo", "#", "run">>, <<"Foo", "::", "MAX">>,
              <<"Zed", ".", "make">> >>


(***************************************************************************)
(* C23: a class, module or method declaration with its `end` on the same   *)
(* line pushes no frame: the stack is the same before and after the line,  *)
(* so an `end` on the next line closes the enclosing block.  The span of   *)
(* its record is widened to reach the end of the line.                     *)
(***************************************************************************)
OneLiner(line) ==
    line.kind \in {"decl", "def", "selfdef", "recvdef"} /\ EndOnSameLine(line)
C23_OneLinerPushesNoFrame ==
    parseCall.st # "called" =>
        \A i \in 1..Len(parseCall.text.lines) :
            LET text == parseCall.text
                before == LocalsBefore(text, i).stack
                lineEnd == LineStart(text, i) + LineLength(text.lines[i])
            IN  OneLiner(text.lines[i]) =>
                    /\ LocalsAfter(text, i).stack = before
                    /\ RecordOf(i).index >= LineStart(text, i)
                    /\ RecordOf(i).index < lineEnd
                    /\ RecordOf(i).index + RecordOf(i).length >= lineEnd
                    /\ (i < Len(text.lines) /\ endRegex(text.lines[i + 1])
                        /\ before # << >>) =>
                            LocalsAfter(text, i + 1).stack
                               = SubSeq(before, 1, Len(before) - 1)
\* class Foo / def run; end / end / MAX = 1: Foo, Foo#run and the bare MAX
C23_Witness ==
    /\ parseCall.st # "called"
    /\ Len(parseCall.text.lines) = 4
    /\ OneLiner(parseCall.text.lines[2])
    /\ parseCall.text.lines[2].kind = "def"
    /\ endRegex(parseCall.text.lines[3])
    /\ Len(parseCall.first) = 3
    /\ [k \in 1..3 |-> parseCall.first[k].name]
         = << <<"Foo">>, <<"Foo", "#", "run">>, <<"MAX">> >>
    /\ parseCall.first[2].length > StrLength(<<"  def run">>)


(***************************************************************************)
(* C24: a `scope :name` line pushes an anonymous frame exactly when it     *)
(* opens a `do` block that is not closed on the same line, and so does an  *)
(* `included do` line.  After a scope with a lambda, with `do ... end` on  *)
(* one line or with a `do` block and its `end`, the enclosing class is     *)
(* still the current namespace and is closed only by its own `end`.        *)
(***************************************************************************)
OpensDoBlock(line) == DoOnLine(line) /\ ~EndOnSameLine(line)
C24_ScopeFrameOnlyForOpenDo ==
    parseCall.st # "called" =>
        \A i \in 1..Len(parseCall.text.lines) :
            LET text == parseCall.text
                before == LocalsBefore(text, i).stack
                after == LocalsAfter(text, i).stack
            IN  text.lines[i].kind \in {"scope", "call"} =>
                    after = IF OpensDoBlock(text.lines[i]) THEN Append(before, OtherFrame)
                            ELSE before


(***************************************************************************)
(* C25: for a query that, trimmed, does not end in `::` or `.`: an empty   *)
(* or whitespace-only query matches every name; a query prefixed with `::` *)
(* matches a name exactly when the name starts, case-insensitively, with   *)
(* the rest of the query; any other query matches exactly when the name    *)
(* contains it case-insensitively.                                         *)
(***************************************************************************)
\* the query as typed, without the blanks around it
Typed(term) == trim(term)
\* a and b are equal but for the case of their letters
SameButCase(a, b) ==
    Len(a) = Len(b) /\ \A i \in 1..Len(a) : LowerChar(a[i]) = LowerChar(b[i])
StartsWithAnyCase(name, part) ==
    Len(part) <= Len(name) /\ SameButCase(SubSeq(name, 1, Len(part)), part)
ContainsAnyCase(name, part) ==
    \E i \in 0..(Len(name) - Len(part)) : SameButCase(SubSeq(name, i + 1, i + Len(part)), part)
C25_PlainAndAbsoluteQueries ==
    nameCall.st = "returned" =>
        LET q == Typed(nameCall.term)
            name == nameCall.name
        IN  ~endsWith(q, <<":", ":">>) /\ ~endsWith(q, <<".">>) =>
                nameCall.result =
                    IF q = << >> THEN TRUE
                    ELSE IF startsWith(q, <<":", ":">>)
                    THEN StartsWithAnyCase(name, sliceFrom(q, 2))
                    ELSE ContainsAnyCase(name, q)
\* ::Foo::Bar does not match Baz::Foo::Bar, which contains the rest
C25_Witness ==
    /\ nameCall.st = "returned"
    /\ nameCall.term = <<":", ":", "F", "o", "o", ":", ":", "B", "a", "r">>
    /\ nameCall.name = <<"B", "a", "z", ":", ":", "F", "o", "o", ":", ":", "B", "a", "r">>
    /\ ~nameCall.result

(***************************************************************************)
(* C26: a query ending in `::` matches exactly the names that equal the    *)
(* namespace or start with `namespace::`, case-insensitively, and a query  *)
(* ending in `.` matches exactly the names that start with `namespace.`.   *)
(* The namespace is the query without the ending and without a leading     *)
(* `::`.                                                                   *)
(***************************************************************************)
StripAbsolute(q) == IF startsWith(q, <<":", ":">>) THEN sliceFrom(q, 2) ELSE q
\* what a namespace query selects
InNamespace(name, namespace) ==
    SameButCase(name, namespace) \/ StartsWithAnyCase(name, namespace \o <<":", ":">>)
MemberOf(name, namespace) == StartsWithAnyCase(name, namespace \o <<".">>)
\* the claim as stated: the ending is looked for in the query as typed
C26_NamespaceQueries ==
    nameCall.st = "returned" =>
        LET q == Typed(nameCall.term)
            name == nameCall.name
        IN  /\ endsWith(q, <<":", ":">>) =>
                nameCall.result = InNamespace(name, StripAbsolute(sliceOff(q, 2)))
            /\ endsWith(q, <<".">>) =>
                nameCall.result = MemberOf(name, StripAbsolute(sliceOff(q, 1)))
\* the claim for a query whose text behind an optional leading `::` has the
\* ending; the query `::` alone has nothing behind the prefix and matches
\* every name
C26_NamespaceQueriesAfterPrefix ==
    nameCall.st = "returned" =>
        LET q == Typed(nameCall.term)
            target == StripAbsolute(q)
            name == nameCall.name
        IN  /\ endsWith(target, <<":", ":">>) =>
                nameCall.result = InNamespace(name, sliceOff(target, 2))
            /\ endsWith(target, <<".">>) =>
                nameCall.result = MemberOf(name, sliceOff(target, 1))
            /\ q = <<":", ":">> => nameCall.result
\* Foo:: leaves out the method Foo.bar of Foo
C26_Witness ==
    /\ nameCall.st = "returned"
    /\ nameCall.term = <<"F", "o", "o", ":", ":">>
    /\ nameCall.name = <<"F", "o", "o", ".", "b", "a", "r">>
    /\ ~nameCall.result

(***************************************************************************)
(* C27: for a fixed query compareMatches puts a name equal to the trimmed, *)
(* lower-cased query before every other name, a name that starts with the  *)
(* query before every name that only contains it, the shorter name first   *)
(* among prefix matches, and among substring matches the earlier match     *)
(* first, the shorter name first when the matches start at the same index; *)
(* sorting [User::AdminCount, SuperUser::Admin, User::Admin] for the query *)
(* User::Admin gives [User::Admin, User::AdminCount, SuperUser::Admin].    *)
(***************************************************************************)
\* where the query first occurs in the name, case ignored (from 0); the
\* length of the name when it does not occur
MatchIndex(name, q) ==
    LET at == {i \in 0..(Len(name) - Len(q)) : SameButCase(SubSeq(name, i + 1, i + Len(q)), q)}
    IN  IF at = {} THEN Len(name) ELSE CHOOSE i \in at : \A j \in at : i <= j
IsExact(name, q) == SameButCase(name, q)
IsPrefix(name, q) == StartsWithAnyCase(name, q)
OnlyContains(name, q) == ContainsAnyCase(name, q) /\ ~StartsWithAnyCase(name, q)
C27_RankingOrder ==
    /\ nameCall.st = "compared" =>
          LET q == Typed(nameCall.term)
              A == nameCall.a
              B == nameCall.b
              AFirst == nameCall.result < 0
          IN  /\ IsExact(A, q) /\ ~IsExact(B, q) => AFirst
              /\ IsPrefix(A, q) /\ OnlyContains(B, q) => AFirst
              /\ IsPrefix(A, q) /\ IsPrefix(B, q) /\ ~IsExact(B, q) /\ Len(A) < Len(B) => AFirst
              /\ OnlyContains(A, q) /\ OnlyContains(B, q) =>
                    /\ MatchIndex(A, q) < MatchIndex(B, q) => AFirst
                    /\ MatchIndex(A, q) = MatchIndex(B, q) /\ Len(A) < Len(B) => AFirst
    /\ (nameCall.st = "sorted" /\ nameCall.term = UserAdmin
          /\ nameCall.list = <<<<"U", "s", "e", "r", ":", ":", "A", "d", "m", "i", "n", "C", "o", "u", "n", "t">>, <<"S", "u", "p", "e", "r", "U", "s", "e", "r", ":", ":", "A", "d", "m", "i", "n">>, <<"U", "s", "e", "r", ":", ":", "A", "d", "m", "i", "n">>>>) =>
          nameCall.result = <<<<"U", "s", "e", "r", ":", ":", "A", "d", "m", "i", "n">>, <<"U", "s", "e", "r", ":", ":", "A", "d", "m", "i", "n", "C", "o", "u", "n", "t">>, <<"S", "u", "p", "e", "r", "U", "s", "e", "r", ":", ":", "A", "d", "m", "i", "n">>>>
\* the list of the claim has been sorted
C27_Witness ==
    /\ nameCall.st = "sorted"
    /\ nameCall.term = UserAdmin
    /\ nameCall.list = <<<<"U", "s", "e", "r", ":", ":", "A", "d", "m", "i", "n", "C", "o", "u", "n", "t">>, <<"S", "u", "p", "e", "r", "U", "s", "e", "r", ":", ":", "A", "d", "m", "i", "n">>, <<"U", "s", "e", "r", ":", ":", "A", "d", "m", "i", "n">>>>
    /\ nameCall.result[1] = UserAdmin
    /\ nameCall.result[3] = <<"S", "u", "p", "e", "r", "U", "s", "e", "r", ":", ":", "A", "d", "m", "i", "n">>

(***************************************************************************)
(* C28: for every query compareMatches orders the names totally, and a tie *)
(* (result 0) occurs only between names of the same rank.  As stated, the  *)
(* rank is the name itself: two different names never tie.  As amended,    *)
(* the rank is whether the name contains the query and, when it does, the  *)
(* index of the first match and the length of the name.                    *)
(***************************************************************************)
C28_TieOnlyForIdentical ==
    (nameCall.st = "compared" /\ nameCall.a # nameCall.b) => nameCall.result # 0
\* names that contain the query come first, by match index and then by
\* length; the names that do not contain it all have one rank
Rank(name, q) ==
    IF ContainsAnyCase(name, q) THEN <<0, MatchIndex(name, q), Len(name)>>
    ELSE <<1, 0, 0>>
RankBefore(r1, r2) ==
    \/ r1[1] < r2[1]
    \/ r1[1] = r2[1] /\ r1[2] < r2[2]
    \/ r1[1] = r2[1] /\ r1[2] = r2[2] /\ r1[3] < r2[3]
C28_TieOnlyForEqualRank ==
    /\ nameCall.st = "compared" =>
          LET q == Typed(nameCall.term)
              rankA == Rank(nameCall.a, q)
              rankB == Rank(nameCall.b, q)
          IN  /\ nameCall.result < 0 <=> RankBefore(rankA, rankB)
              /\ nameCall.result > 0 <=> RankBefore(rankB, rankA)
              /\ nameCall.result = 0 <=> rankA = rankB
    /\ (nameCall.st = "sorted" /\ nameCall.list = PostScopes) =>
          nameCall.result =
              << <<"P", "o", "s", "t", ".", "d", "r", "a", "f", "t">>,
                 <<"P", "o", "s", "t", ".", "r", "e", "c", "e", "n", "t">>,
                 <<"P", "o", "s", "t", ".", "a", "c", "t", "i", "v", "e">>,
                 <<"P", "o", "s", "t", ".", "p", "e", "n", "d", "i", "n", "g">>,
                 <<"P", "o", "s", "t", ".", "a", "r", "c", "h", "i", "v", "e", "d">>,
                 <<"P", "o", "s", "t", ".", "f", "e", "a", "t", "u", "r", "e", "d">>,
                 <<"P", "o", "s", "t", ".", "p", "u", "b", "l", "i", "s", "h", "e", "d">> >>
\* Post.recent and Post.active tie for the query `Post.`
C28_Witness ==
    /\ nameCall.st = "compared"
    /\ nameCall.term = PostDot
    /\ nameCall.a = PostScopes[4]
    /\ nameCall.b = PostScopes[7]
    /\ nameCall.result = 0

(***************************************************************************)
(* C29: isClassOrModule(name) is false when the name contains `.`, false   *)
(* when the last `::`-segment is non-empty, contains a letter and is       *)
(* entirely uppercase, and true otherwise; of Post and its scopes only     *)
(* Post is kept, Foo::BAR is rejected and Foo::Bar accepted.               *)
(***************************************************************************)
\* the text behind the last `::` of the name, the name when it has none
LastSegment(name) ==
    LET at == {i \in 1..(Len(name) - 1) : name[i] = ":" /\ name[i + 1] = ":"}
    IN  IF at = {} THEN name
        ELSE SubSeq(name, (CHOOSE i \in at : \A j \in at : j <= i) + 2, Len(name))
IsLetter(c) == \E k \in 1..26 : c = UpperCase[k] \/ c = LowerCase[k]
IsLowerCaseLetter(c) == \E k \in 1..26 : c = LowerCase[k]
ConstantLike(segment) ==
    /\ segment # << >>
    /\ \E i \in 1..Len(segment) : IsLetter(segment[i])
    /\ \A i \in 1..Len(segment) : ~IsLowerCaseLetter(segment[i])
C29_Classification ==
    nameCall.st = "classified" =>
        LET name == nameCall.name
        IN  /\ nameCall.result =
                  IF \E i \in 1..Len(name) : name[i] = "." THEN FALSE
                  ELSE IF ConstantLike(LastSegment(name)) THEN FALSE
                  ELSE TRUE
            /\ name = PostScopes[1] => ~nameCall.result
            /\ name = <<"P", "o", "s", "t">> => nameCall.result
            /\ name = <<"F", "o", "o", ":", ":", "B", "a", "r">> => nameCall.result
\* Foo::BAR has been rejected
C29_Witness ==
    /\ nameCall.st = "classified"
    /\ nameCall.name = <<"F", "o", "o", ":", ":", "B", "A", "R">>
    /\ ~nameCall.result

(***************************************************************************)
(* C30: isClassOrModule is false for every instance-method name            *)
(* (NS#method) and every bare top-level method name the extractor emits,   *)
(* so the picker with an empty query shows no name of a `def` line.        *)
(***************************************************************************)
ItemsShown == {nameCall.items[k] : k \in 1..Len(nameCall.items)}
C30_NoMethodInEmptyPicker ==
    (nameCall.st = "shown" /\ trim(nameCall.value) = << >>) =>
        \A i \in 1..Len(parseCall.text.lines) :
            parseCall.text.lines[i].kind = "def" => Spell(RecordName(i)) \notin ItemsShown

(***************************************************************************)
(* C31: in every reachable state a path has a symbol list exactly when it  *)
(* has a recorded mtime, and every list in the table is the complete list  *)
(* of one content of its file, as extracted or as loaded from the disk     *)
(* cache: a step replaces the list and the mtime of a file together, so    *)
(* getAllSymbols() never sees a part of a list or a list without mtime.    *)
(***************************************************************************)
\* getAllSymbols(): the lists of the table, flattened
RECURSIVE getAllSymbols(_, _)
getAllSymbols(c, f) ==
    IF f > NumFiles THEN << >>
    ELSE (IF f \in DOMAIN c THEN c[f] ELSE << >>) \o getAllSymbols(c, f + 1)
\* the contents a file can have had
Versions == 0..(1 + MaxOps)
\* the complete symbol lists of file f: of one content, as the extractor
\* returns it or as loadFromDisk rebuilds it from the disk cache
WholeLists(f) ==
    {extractSymbolsFromDocument(f, v) : v \in Versions}
    \cup {[k \in DOMAIN extractSymbolsFromDocument(f, v) |->
              DeserializeSymbol(f, SerializeSymbol(extractSymbolsFromDocument(f, v)[k]))] :
          v \in Versions}
RECURSIVE ConcatWhole(_)
ConcatWhole(f) ==
    IF f > NumFiles THEN {<< >>}
    ELSE {l \o rest : l \in WholeLists(f) \cup {<< >>}, rest \in ConcatWhole(f + 1)}
C31_TableEntriesWhole ==
    /\ DOMAIN cache = DOMAIN fileModTimes
    /\ \A f \in DOMAIN cache : cache[f] \in WholeLists(f)
    /\ getAllSymbols(cache, 1) \in ConcatWhole(1)
\* mid-index, the list of a file has been replaced by that of a newer content
C31_Witness ==
    /\ \E p \in PassIds : passes[p].pc = "batch"
    /\ \E f \in DOMAIN cache : cache[f] = extractSymbolsFromDocument(f, 2) /\ fileModTimes[f] = 2

(***************************************************************************)
(* C32: during one call of the extractor the length of a record never      *)
(* decreases; when an `end` line pops the frame that a class, module or    *)
(* method declaration pushed, the span of that record ends at the end of   *)
(* that `end` line, its line terminator included unless it is the last     *)
(* line; an `end` line met with an empty stack changes no record.          *)
(***************************************************************************)
\* the offset in the text behind line i and its line terminator
LineEnd(text, i) == TextLength(text, i)
LengthsKept(before, after) ==
    /\ Len(after.symbols) >= Len(before.symbols)
    /\ \A k \in 1..Len(before.symbols) :
          /\ after.symbols[k].length >= before.symbols[k].length
          /\ after.symbols[k].index = before.symbols[k].index
          /\ after.symbols[k].name = before.symbols[k].name
C32_EndWidensSpan ==
    parseCall.st # "called" =>
        \A i \in 1..Len(parseCall.text.lines) :
            LET text == parseCall.text
                before == LocalsBefore(text, i)
                after == LocalsAfter(text, i)
                top == before.stack[Len(before.stack)]
            IN  /\ LengthsKept(before, after)
                /\ endRegex(text.lines[i]) =>
                      IF before.stack = << >>
                      THEN after.symbols = before.symbols /\ after.stack = << >>
                      ELSE top.symbolIndex # NoSymbol =>
                              after.symbols[top.symbolIndex].index
                                 + after.symbols[top.symbolIndex].length = LineEnd(text, i)

(***************************************************************************)
(* C33: whenever the index is quiescent (no debounce timer pending, no     *)
(* re-parse and no indexing pass in flight), every table entry of a file   *)
(* that exists records the current mtime of the file and holds the symbols *)
(* of its current content.                                                 *)
(***************************************************************************)
SymbolNames(symbols) == [k \in DOMAIN symbols |-> symbols[k].name]
EntryCurrent(f) ==
    /\ fileModTimes[f] = fsMtime[f]
    /\ SymbolNames(cache[f]) = SymbolNames(extractSymbolsFromDocument(f, fsMtime[f]))
C33_QuiescentTableCurrent ==
    Quiescent =>
        \A f \in (DOMAIN cache) \cap (DOMAIN fileModTimes) : fsExists[f] => EntryCurrent(f)

(***************************************************************************)
(* C34: when a rebuildIndex() call completes, every path in the table is   *)
(* a file of the current workspace under no excluded directory: loading    *)
(* the disk cache brings in no entry of a file outside the live file set.  *)
(***************************************************************************)
\* the files that discovery can find: of the workspace, not excluded
Discoverable == Files \ outside
PassCompletes(p) == passes[p].pc = "ready" /\ passes'[p].pc = "idle"
C34_TableWithinLiveSet ==
    [][\A p \in PassIds : PassCompletes(p) => (DOMAIN cache') \subseteq Discoverable]_vars

(***************************************************************************)
(* C35: saveToDisk() followed by loadFromDisk(), with the mtimes of the    *)
(* files unchanged and nothing pruned, reproduces the table: the same      *)
(* files, and for each file the same symbols in the same order with the    *)
(* same name, range and visibility.                                        *)
(***************************************************************************)
Visibility(sym) == IF "isPrivate" \in DOMAIN sym /\ sym.isPrivate THEN "private" ELSE "public"
SameSymbols(a, b) ==
    /\ Len(a) = Len(b)
    /\ \A k \in 1..Len(a) :
          /\ a[k].name = b[k].name
          /\ a[k].range = b[k].range
          /\ Visibility(a[k]) = Visibility(b[k])
SameTable(c1, m1, c2, m2) ==
    /\ DOMAIN c1 = DOMAIN c2
    /\ m1 = m2
    /\ \A f \in DOMAIN c1 : SameSymbols(c1[f], c2[f])
\* the cache file is what saveToDisk() writes from the table, unpruned,
\* and every file of the table has the mtime that the table records
SavedUnchanged ==
    /\ cacheFile = saveToDisk(cache, fileModTimes)
    /\ DOMAIN cacheFile.data = DOMAIN cache
    /\ DOMAIN fileModTimes = DOMAIN cache
    /\ \A f \in DOMAIN cache : fsExists[f] /\ fsMtime[f] = fileModTimes[f]
LoadStep == \E p \in PassIds : passes[p].pc = "idle" /\ passes'[p].pc = "loading"
C36_EveryDiskSavePromiseResolved == orphanedSaves = 0

(***************************************************************************)
(* C37: after a full-index pass has failed (performIndexing rejected) the  *)
(* index recovers: once no pass is in flight isIndexingActive() is false   *)
(* again, so that debounced disk saves are no longer skipped, and an       *)
(* ensureIndexed() call on an empty table starts a fresh pass.             *)
(***************************************************************************)
NoPassInFlight == \A p \in PassIds : passes[p].pc = "idle"
isIndexingActive == isIndexing
C37_RecoversAfterFailedPass ==
    NoPassInFlight =>
        /\ ~isIndexingActive
        /\ Cardinality(DOMAIN cache) = 0 => ensureIndexedOutcome = "start"

(***************************************************************************)
(* C38: dispose() writes the table to the cache file as it was before it   *)
(* is cleared; once dispose() has returned the table stays empty, no       *)
(* timer is armed or fires and the cache file is not written again, also   *)
(* when a pass or a change batch was in flight at the call.                *)
(***************************************************************************)
DisposeStep == ~disposed /\ disposed'
TableEmpty(c, m) == c = EmptyMap /\ m = EmptyMap
C38_DisposeIsFinal ==
    [][/\ DisposeStep =>
             /\ cacheFile' = saveToDisk(cache, fileModTimes)
             /\ TableEmpty(cache', fileModTimes')
       /\ disposed =>
             /\ TableEmpty(cache', fileModTimes')
             /\ debounceTimer' = -1 /\ diskSaveTimer' = 0
             /\ cacheFile' = cacheFile]_vars

(***************************************************************************)
(* C39: for an absolute query `::X`, among the names that                  *)
(* matchesRubySymbol accepts for it, compareMatches places the name equal  *)
(* to X before every other name, and of two names that X is a prefix of    *)
(* the shorter before the longer, as it does for the query X.              *)
(***************************************************************************)
IsAbsolute(q) == startsWith(q, <<":", ":">>) /\ Len(q) > 2
C39_AbsoluteQueryRankedAsPlain ==
    (nameCall.st = "compared" /\ IsAbsolute(Typed(nameCall.term))) =>
        LET X == StripAbsolute(Typed(nameCall.term))
            A == nameCall.a
            B == nameCall.b
            AFirst == nameCall.result < 0
        IN  (matchesRubySymbol(A, nameCall.term) /\ matchesRubySymbol(B, nameCall.term)) =>
                /\ IsExact(A, X) /\ ~IsExact(B, X) => AFirst
                /\ IsPrefix(A, X) /\ IsPrefix(B, X) /\ ~IsExact(B, X) /\ Len(A) < Len(B) => AFirst

(***************************************************************************)
(* C40: every name that the extractor records for a class or module        *)
(* declaration is accepted by isClassOrModule, and so is among the items   *)
(* of the picker with an empty value; this includes the names whose last   *)
(* segment has no lower-case letter (class API, module HTTP, class A).     *)
(***************************************************************************)
C40_DeclaredNamesAreClasses ==
    (nameCall.st = "shown" /\ trim(nameCall.value) = << >>) =>
        \A i \in DeclLinesOf(parseCall.text) : Spell(RecordName(i)) \in ItemsShown

=============================================================================
